---- MODULE Spec2Model ----
(***************************************************************************)
(* Model of the mid-stock signal scanner: the indicator helpers, the three *)
(* pattern detectors, the signal synthesis and the per-symbol scan of      *)
(* MidStrategyScanner, together with DataFetcher's cache.                  *)
(*                                                                         *)
(* Prices are integers in thousandths of a rupee (100000 = 100.000), so    *)
(* that rounding to 2 decimals is a real operation.  Percentages and       *)
(* ratios of config.py are kept as integers in the unit named next to      *)
(* them, and every comparison of the code is evaluated exactly by          *)
(* cross-multiplication (the code uses IEEE doubles; the series used here  *)
(* put a value exactly on a threshold only where the comparison of the     *)
(* doubles agrees with the exact one).                                     *)
(***************************************************************************)
EXTENDS Integers, Sequences, FiniteSets, TLC

----------------------------------------------------------------------------
(* Program constants (config.py and literals of the source)                *)

STOP_LOSS_PERCENTAGE == 15      \* tenths of a percent: 1.5 %
TARGET_PERCENTAGE_1 == 20       \* tenths of a percent: 2.0 %
TARGET_PERCENTAGE_2 == 35       \* tenths of a percent: 3.5 %
MIN_RISK_REWARD_RATIO == 120    \* hundredths: 1.2
SWEEP_WICK_RATIO == 50          \* hundredths: 0.5
SWEEP_LOOKBACK == 20
SWEEP_REVERSAL_BODY == 35       \* hundredths: 0.35
BREAKOUT_VOLUME_MULTIPLIER == 12 \* tenths: 1.2
SR_TOUCH_THRESHOLD == 8         \* tenths of a percent: 0.8 %
SR_LOOKBACK_DAYS == 20
RSI_PERIOD == 14
VOLUME_MA_PERIOD == 20
MIN_VOLUME_RATIO == 11          \* tenths: 1.1
MIN_INTRADAY_CANDLES == 10      \* fetch_intraday_data: len(df) >= 10
\* (variant: the data check of scan_stock compares with the intraday minimum)
MinScanCandlesIntraday == MIN_INTRADAY_CANDLES
MIN_SCAN_CANDLES == 30          \* scan_stock: len(df) < 30
MIN_BREAKOUT_CANDLES == 15      \* detect_false_breakout: len(df) < 15
MAX_LEVELS == 5                 \* calculate_support_resistance: [:5]
SIGNAL_LEVELS == 3              \* _build_signal: support_levels[:3]
max_retries == 2                \* DataFetcher.__init__
cache_duration == 60            \* DataFetcher.__init__, seconds
SCAN_INTERVAL == 300            \* seconds
MARKET_CLOSED_SLEEP == 300      \* trading_loop: asyncio.sleep(300)
\* the safety settings of config.py; no code reads them
MAX_SIGNALS_PER_DAY == 10
\* config.ENGULFING_BODY_RATIO, hundredths: 1.15; no code reads it
ENGULFING_BODY_RATIO == 115
DUPLICATE_SIGNAL_WINDOW == 900  \* seconds

\* (variant: the two candles detect_engulfing reads)
EngulfingCandlesRead == 1 + 1
MIN_ENGULFING_CANDLES == 3      \* detect_engulfing: len(df) < 3

----------------------------------------------------------------------------
(* Python values                                                           *)

\* None / an optional value: the empty sequence is None, <<x>> is x
None == <<>>

Some(x) == <<x>>

\* truthiness of an optional dict or DataFrame reference (`if signal:`)
IsSome(o) == o # <<>>

Abs(x) == IF x < 0 THEN -x ELSE x

Min2(a, b) == IF a < b THEN a ELSE b

Max2(a, b) == IF a > b THEN a ELSE b

SetMin(S) == CHOOSE x \in S : \A y \in S : x <= y

SetMax(S) == CHOOSE x \in S : \A y \in S : x >= y

\* round(n / d) of Python 3 for n >= 0, d > 0: nearest integer, ties to even
RoundDiv(n, d) ==
    LET q == n \div d
        r == n % d
    IN  IF 2 * r < d THEN q
        ELSE IF 2 * r > d THEN q + 1
        ELSE IF q % 2 = 0 THEN q ELSE q + 1

\* round(x, 2) of a price held in thousandths: the result is again in
\* thousandths and is a multiple of 10
Round2(x) == 10 * RoundDiv(x, 10)

\* ascending / descending list of a finite set of integers (sorted(...))
RECURSIVE SortedAsc(_)
SortedAsc(S) == IF S = {} THEN <<>>
                ELSE LET m == SetMin(S) IN <<m>> \o SortedAsc(S \ {m})

RECURSIVE SortedDesc(_)
SortedDesc(S) == IF S = {} THEN <<>>
                 ELSE LET m == SetMax(S) IN <<m>> \o SortedDesc(S \ {m})

\* lst[:k]
Take(lst, k) == SubSeq(lst, 1, Min2(k, Len(lst)))

\* df.tail(k) on the list of candles
Tail_(c, k) == IF Len(c) > k THEN SubSeq(c, Len(c) - k + 1, Len(c)) ELSE c

RECURSIVE SeqSum(_)
SeqSum(q) == IF q = <<>> THEN 0 ELSE Head(q) + SeqSum(Tail(q))

----------------------------------------------------------------------------
(* DataFrames.  A frame is [cols, c]: c is the chronological list of       *)
(* candles [O, H, L, C, V]; cols says which columns the provider           *)
(* delivered: "ohlcv" all five, "ohlc" no Volume column, "ocv" no High and *)
(* no Low column, "none" no price columns.  Reading a missing column       *)
(* raises KeyError.                                                        *)

\* all of Open, High, Low, Close are there
HasPrice(df) == df.cols \in {"ohlcv", "ohlc"}

\* df['Close'] (and df['Open']) can be read
HasClose(df) == df.cols \in {"ohlcv", "ohlc", "ocv"}

HasVolume(df) == df.cols \in {"ohlcv", "ocv"}

DfLen(df) == Len(df.c)

Cur(df) == df.c[Len(df.c)]

Prev(df) == df.c[Len(df.c) - 1]

\* df['Volume'].tail(20).mean() compared as a sum: mean = VolSum20 / 20
VolTail20(df) == Tail_(df.c, 20)

VolSum20(df) == SeqSum([i \in 1..Len(VolTail20(df)) |-> VolTail20(df)[i].V])

VolCnt20(df) == Len(VolTail20(df))

----------------------------------------------------------------------------
(* indicators.py                                                           *)

\* The last value of the Series calculate_rsi returns, as a record:
\*   kind "nan": the value is NaN (fewer than `period` rows, or no gain and
\*               no loss in the window: 0/0);
\*   kind "val": the value is 100 * g / (g + l), g and l being the sums of
\*               the gains and of the losses over the last `period` deltas
\*               (gain/0 is +inf and maps to 100; 0/loss maps to 0);
\*   kind "fifty": the computation raised (no Close column) and the
\*               fallback Series of 50s was returned.
\* (variant: without losses the neutral value 50 is returned)
calculate_rsi_neutral_without_loss(df) ==
    IF ~HasClose(df) THEN [kind |-> "fifty", g |-> 1, l |-> 1]
    ELSE IF DfLen(df) < RSI_PERIOD THEN [kind |-> "nan", g |-> 0, l |-> 0]
    ELSE
      LET n == DfLen(df)
          \* delta of row i (row 1 has no predecessor: NaN, replaced by 0)
          delta(i) == IF i = 1 THEN 0 ELSE df.c[i].C - df.c[i - 1].C
          gain == SeqSum([k \in 1..RSI_PERIOD |->
                    LET d == delta(n - RSI_PERIOD + k) IN IF d > 0 THEN d ELSE 0])
          loss == SeqSum([k \in 1..RSI_PERIOD |->
                    LET d == delta(n - RSI_PERIOD + k) IN IF d < 0 THEN -d ELSE 0])
      IN  IF loss = 0 THEN [kind |-> "fifty", g |-> 1, l |-> 1]
          ELSE [kind |-> "val", g |-> gain, l |-> loss]

calculate_rsi(df) ==
    IF ~HasClose(df) THEN [kind |-> "fifty", g |-> 1, l |-> 1]
    ELSE IF DfLen(df) < RSI_PERIOD THEN [kind |-> "nan", g |-> 0, l |-> 0]
    ELSE
      LET n == DfLen(df)
          \* delta of row i (row 1 has no predecessor: NaN, replaced by 0)
          delta(i) == IF i = 1 THEN 0 ELSE df.c[i].C - df.c[i - 1].C
          gain == SeqSum([k \in 1..RSI_PERIOD |->
                    LET d == delta(n - RSI_PERIOD + k) IN IF d > 0 THEN d ELSE 0])
          loss == SeqSum([k \in 1..RSI_PERIOD |->
                    LET d == delta(n - RSI_PERIOD + k) IN IF d < 0 THEN -d ELSE 0])
      IN  IF gain = 0 /\ loss = 0 THEN [kind |-> "nan", g |-> 0, l |-> 0]
          ELSE [kind |-> "val", g |-> gain, l |-> loss]

\* (variant: an undefined RSI counts as overbought)
RsiGTUndefinedBlocks(r, t) ==
    CASE r.kind = "nan" -> TRUE
      [] r.kind = "fifty" -> 50 > t
      [] OTHER -> 100 * r.g > t * (r.g + r.l)

\* the last value of the series is the number 100 * g / (g + l), v in whole
\* RSI points
RsiIs(r, v) == r.kind = "val" /\ 100 * r.g = v * (r.g + r.l)

\* rsi > t and rsi < t for a threshold t in whole RSI points; every
\* comparison with NaN is False
RsiGT(r, t) ==
    CASE r.kind = "nan" -> FALSE
      [] r.kind = "fifty" -> 50 > t
      [] OTHER -> 100 * r.g > t * (r.g + r.l)

RsiLT(r, t) ==
    CASE r.kind = "nan" -> FALSE
      [] r.kind = "fifty" -> 50 < t
      [] OTHER -> 100 * r.g < t * (r.g + r.l)

\* round(rsi, 2) in hundredths of an RSI point; -1 stands for NaN
RsiRound2(r) ==
    CASE r.kind = "nan" -> -1
      [] r.kind = "fifty" -> 5000
      [] OTHER -> RoundDiv(10000 * r.g, r.g + r.l)

\* number of decimal digits of int(price), price in thousandths
Digits(price) ==
    LET ip == price \div 1000
    IN  IF ip < 10 THEN 1 ELSE IF ip < 100 THEN 2 ELSE IF ip < 1000 THEN 3
        ELSE IF ip < 10000 THEN 4 ELSE 5

RECURSIVE Pow10(_)
Pow10(k) == IF k = 0 THEN 1 ELSE 10 * Pow10(k - 1)

\* step = 10 ** (len(str(int(current_price))) - 2), in thousandths
PsychStep(price) == Pow10(Digits(price) + 1)

\* the candidate lists before deduplication (Methods 1 to 3)
SupportCandidates(w) ==
    LET n == Len(w)
        lows(i) == w[i].L
        recent_high == SetMax({w[i].H : i \in 1..n})
        recent_low == SetMin({w[i].L : i \in 1..n})
        current_price == w[n].C
        step == PsychStep(current_price)
        local == {lows(i) : i \in {j \in 3..(n - 2) :
                     /\ lows(j) < lows(j - 1) /\ lows(j) < lows(j - 2)
                     /\ lows(j) < lows(j + 1) /\ lows(j) < lows(j + 2)}}
        psych == IF recent_high - recent_low > 0
                 THEN {lv \in {RoundDiv(current_price, step) * step + m * step :
                                 m \in -3..3} :
                         recent_low <= lv /\ lv <= recent_high /\ lv < current_price}
                 ELSE {}
    IN  local \cup {recent_low} \cup psych

ResistanceCandidates(w) ==
    LET n == Len(w)
        highs(i) == w[i].H
        recent_high == SetMax({w[i].H : i \in 1..n})
        recent_low == SetMin({w[i].L : i \in 1..n})
        current_price == w[n].C
        step == PsychStep(current_price)
        local == {highs(i) : i \in {j \in 3..(n - 2) :
                     /\ highs(j) > highs(j - 1) /\ highs(j) > highs(j - 2)
                     /\ highs(j) > highs(j + 1) /\ highs(j) > highs(j + 2)}}
        psych == IF recent_high - recent_low > 0
                 THEN {lv \in {RoundDiv(current_price, step) * step + m * step :
                                 m \in -3..3} :
                         recent_low <= lv /\ lv <= recent_high /\ lv > current_price}
                 ELSE {}
    IN  local \cup {recent_high} \cup psych

\* (variant: the levels are compared with the price before they are rounded)
calculate_support_resistance_unrounded(df) ==
    IF ~HasPrice(df) \/ DfLen(df) = 0 THEN [support |-> <<>>, resistance |-> <<>>]
    ELSE
      LET w == Tail_(df.c, SR_LOOKBACK_DAYS)
          current_price == w[Len(w)].C
          sup == {Round2(x) : x \in {y \in SupportCandidates(w) : y < current_price}}
          res == {Round2(x) : x \in {y \in ResistanceCandidates(w) : y > current_price}}
      IN  [support |-> Take(SortedDesc(sup), MAX_LEVELS),
           resistance |-> Take(SortedAsc(res), MAX_LEVELS)]

\* (support_levels, resistance_levels); ([], []) when the computation raises
\* (a missing High, Low or Close column; closes[-1] of a frame without rows)
calculate_support_resistance(df) ==
    IF ~HasPrice(df) \/ DfLen(df) = 0 THEN [support |-> <<>>, resistance |-> <<>>]
    ELSE
      LET w == Tail_(df.c, SR_LOOKBACK_DAYS)
          current_price == w[Len(w)].C
          sup == {Round2(x) : x \in SupportCandidates(w)}
          res == {Round2(x) : x \in ResistanceCandidates(w)}
      IN  [support |-> Take(SortedDesc({s \in sup : s < current_price}), MAX_LEVELS),
           resistance |-> Take(SortedAsc({r \in res : r > current_price}), MAX_LEVELS)]

\* (is_confirmed, volume_ratio); the ratio is kept as the fraction num/den
check_volume_confirmation(df) ==
    IF DfLen(df) < VOLUME_MA_PERIOD \/ ~HasVolume(df) \/ VolSum20(df) = 0
    THEN [confirmed |-> FALSE, num |-> 1, den |-> 1]
    ELSE [confirmed |-> 10 * Cur(df).V * VolCnt20(df) >= MIN_VOLUME_RATIO * VolSum20(df),
          num |-> Cur(df).V * VolCnt20(df), den |-> VolSum20(df)]

----------------------------------------------------------------------------
(* logs.py                                                                 *)

\* Result of a detect body that raised (same shape as a match, so that it
\* compares with one)
EXC == <<[type |-> "raised", pattern_name |-> "", level |-> 0]>>

\* (variant: the wrapper lets the exception through)
log_exceptions_reraise(r) == r

\* @log_exceptions: an exception of the wrapped function becomes None
log_exceptions(r) == IF r = EXC THEN None ELSE r

\* the same wrapper around a validate function, whose results are the
\* strings "True" and "False"; "None" is what the wrapper returns on a fault
log_exceptions_bool(r) == IF r = "raised" THEN "None" ELSE r

----------------------------------------------------------------------------
(* liquidity_sweep_detector.py                                             *)

\* (variant: the swept low is the lowest of the whole series before the
\* current candle)
detect_sweep_body_all_lows(df) ==
    IF DfLen(df) < SWEEP_LOOKBACK THEN None
    ELSE IF ~HasPrice(df) THEN EXC
    ELSE
      LET cur == Cur(df)
          candle_range == cur.H - cur.L
          body_size == Abs(cur.C - cur.O)
          bullish == cur.C > cur.O
          upper_wick == IF bullish THEN cur.H - cur.C ELSE cur.H - cur.O
          lower_wick == IF bullish THEN cur.O - cur.L ELSE cur.C - cur.L
          n == DfLen(df)
          recent == SubSeq(df.c, 1, n - 1)
          min_low == SetMin({recent[i].L : i \in 1..Len(recent)})
          max_high == SetMax({recent[i].H : i \in 1..Len(recent)})
          has_body == 100 * body_size >= SWEEP_REVERSAL_BODY * candle_range
          buy == /\ 100 * lower_wick >= SWEEP_WICK_RATIO * candle_range
                 /\ cur.C > cur.O
                 /\ has_body
                 /\ cur.L < min_low
          sell == /\ 100 * upper_wick >= SWEEP_WICK_RATIO * candle_range
                  /\ cur.C < cur.O
                  /\ has_body
                  /\ ~buy
                  /\ cur.H > max_high
      IN  IF candle_range = 0 THEN None
          ELSE IF buy THEN Some([type |-> "BUY",
                                 pattern_name |-> "Bullish Liquidity Sweep",
                                 level |-> Round2(min_low)])
          ELSE IF sell THEN Some([type |-> "SELL",
                                  pattern_name |-> "Bearish Liquidity Sweep",
                                  level |-> Round2(max_high)])
          ELSE None

detect_sweep_body(df) ==
    IF DfLen(df) < SWEEP_LOOKBACK THEN None
    ELSE IF ~HasPrice(df) THEN EXC
    ELSE
      LET cur == Cur(df)
          candle_range == cur.H - cur.L
          body_size == Abs(cur.C - cur.O)
          bullish == cur.C > cur.O
          upper_wick == IF bullish THEN cur.H - cur.C ELSE cur.H - cur.O
          lower_wick == IF bullish THEN cur.O - cur.L ELSE cur.C - cur.L
          n == DfLen(df)
          \* df[...].tail(lookback).iloc[:-1]
          recent == SubSeq(df.c, n - SWEEP_LOOKBACK + 1, n - 1)
          min_low == SetMin({recent[i].L : i \in 1..Len(recent)})
          max_high == SetMax({recent[i].H : i \in 1..Len(recent)})
          has_body == 100 * body_size >= SWEEP_REVERSAL_BODY * candle_range
          buy == /\ 100 * lower_wick >= SWEEP_WICK_RATIO * candle_range
                 /\ cur.C > cur.O
                 /\ has_body
                 /\ cur.L < min_low
          sell == /\ 100 * upper_wick >= SWEEP_WICK_RATIO * candle_range
                  /\ cur.C < cur.O
                  /\ has_body
                  /\ ~buy
                  /\ cur.H > max_high
      IN  IF candle_range = 0 THEN None
          ELSE IF buy THEN Some([type |-> "BUY",
                                 pattern_name |-> "Bullish Liquidity Sweep",
                                 level |-> Round2(min_low)])
          ELSE IF sell THEN Some([type |-> "SELL",
                                  pattern_name |-> "Bearish Liquidity Sweep",
                                  level |-> Round2(max_high)])
          ELSE None

detect_sweep(df) == log_exceptions(detect_sweep_body(df))

\* (variant: the sides exchanged, high - close for BUY)
ReversalDistanceExchanged(cur, signal_type) ==
    IF signal_type = "BUY" THEN cur.H - cur.C ELSE cur.C - cur.L

\* validate_sweep lines 133-143: close - low for BUY, high - close for SELL
ReversalDistance(cur, signal_type) ==
    IF signal_type = "BUY" THEN cur.C - cur.L ELSE cur.H - cur.C

validate_sweep_body(df, signal) ==
    IF signal = None THEN "False"
    ELSE IF DfLen(df) = 0 THEN "raised"
    ELSE IF DfLen(df) >= 20 /\ ~HasVolume(df) THEN "raised"
    ELSE IF DfLen(df) >= 20 /\ 10 * Cur(df).V * VolCnt20(df) < 8 * VolSum20(df)
         THEN "False"
    ELSE IF ~HasPrice(df) THEN "raised"
    ELSE
      LET cur == Cur(df)
          candle_range == cur.H - cur.L
          reversal_distance == ReversalDistance(cur, signal[1].type)
          rsi == calculate_rsi(df)
      IN  IF 10 * reversal_distance < 4 * candle_range THEN "False"
          ELSE IF signal[1].type = "BUY" /\ RsiGT(rsi, 70) THEN "False"
          ELSE IF signal[1].type = "SELL" /\ RsiLT(rsi, 30) THEN "False"
          ELSE "True"

validate_sweep(df, signal) == log_exceptions_bool(validate_sweep_body(df, signal))

----------------------------------------------------------------------------
(* false_breakout_detector.py                                              *)

\* min(levels, key=lambda x: abs(x - price)): the first of the nearest
Nearest(levels, price) ==
    LET d(i) == Abs(levels[i] - price)
        best == CHOOSE i \in 1..Len(levels) :
                   /\ \A j \in 1..Len(levels) : d(i) <= d(j)
                   /\ \A j \in 1..(i - 1) : d(j) > d(i)
    IN  levels[best]

\* (variant: the volume is compared on shorter series too)
HadVolumeAnyLength(df) ==
    10 * Prev(df).V * VolCnt20(df) > BREAKOUT_VOLUME_MULTIPLIER * VolSum20(df)

\* breakout_volume > avg_volume * volume_multiplier (True below 20 candles)
HadVolume(df) ==
    IF DfLen(df) >= 20
    THEN 10 * Prev(df).V * VolCnt20(df) > BREAKOUT_VOLUME_MULTIPLIER * VolSum20(df)
    ELSE TRUE

\* (variant: the direction of the current candle is not asked for)
is_bullish_unchecked(cur) == cur = cur

\* detect_false_breakout line 47: current_candle['Close'] > current_candle['Open']
is_bullish(cur) == cur.C > cur.O

detect_false_breakout_body(df, support_levels, resistance_levels) ==
    IF DfLen(df) < MIN_BREAKOUT_CANDLES THEN None
    ELSE IF support_levels = <<>> /\ resistance_levels = <<>> THEN None
    ELSE IF ~HasPrice(df) THEN EXC
    ELSE IF DfLen(df) >= 20 /\ ~HasVolume(df) THEN EXC
    ELSE
      LET cur == Cur(df)
          prev == Prev(df)
          nearest_support == Nearest(support_levels, cur.C)
          nearest_resistance == Nearest(resistance_levels, cur.C)
          buy == /\ support_levels # <<>>
                 /\ 1000 * prev.L < 997 * nearest_support
                 /\ 1000 * cur.C > 1002 * nearest_support
                 /\ is_bullish(cur)
                 /\ HadVolume(df)
          sell == /\ resistance_levels # <<>>
                  /\ ~buy
                  /\ 1000 * prev.H > 1003 * nearest_resistance
                  /\ 1000 * cur.C < 998 * nearest_resistance
                  /\ cur.C < cur.O
                  /\ HadVolume(df)
      IN  IF buy THEN Some([type |-> "BUY",
                            pattern_name |-> "Bullish False Breakout",
                            level |-> Round2(nearest_support)])
          ELSE IF sell THEN Some([type |-> "SELL",
                                  pattern_name |-> "Bearish False Breakout",
                                  level |-> Round2(nearest_resistance)])
          ELSE None

detect_false_breakout(df, support_levels, resistance_levels) ==
    log_exceptions(detect_false_breakout_body(df, support_levels, resistance_levels))

\* (variant: a close exactly 1% from the level is already too far)
validate_false_breakout_body_from_1pct(df, signal) ==
    IF signal = None THEN "False"
    ELSE IF DfLen(df) = 0 THEN "raised"
    ELSE IF ~HasPrice(df) THEN "raised"
    ELSE
      LET cur == Cur(df)
          candle_range == cur.H - cur.L
          body_size == Abs(cur.C - cur.O)
          fakeout_level == signal[1].level
      IN  IF candle_range > 0 /\ 10 * body_size < 3 * candle_range THEN "False"
          ELSE IF 100 * Abs(cur.C - fakeout_level) >= fakeout_level THEN "False"
          ELSE "True"

validate_false_breakout_body(df, signal) ==
    IF signal = None THEN "False"
    ELSE IF DfLen(df) = 0 THEN "raised"
    ELSE IF ~HasPrice(df) THEN "raised"
    ELSE
      LET cur == Cur(df)
          candle_range == cur.H - cur.L
          body_size == Abs(cur.C - cur.O)
          fakeout_level == signal[1].level
      IN  IF candle_range > 0 /\ 10 * body_size < 3 * candle_range THEN "False"
          ELSE IF 100 * Abs(cur.C - fakeout_level) > fakeout_level THEN "False"
          ELSE "True"

validate_false_breakout(df, signal) ==
    log_exceptions_bool(validate_false_breakout_body(df, signal))

----------------------------------------------------------------------------
(* engulfing_detector.py                                                   *)

\* (variant: without levels the proximity test counts as passed)
FirstNearOrNoLevels(levels, price) ==
    LET near(i) == 1000 * Abs(price - levels[i]) <= SR_TOUCH_THRESHOLD * levels[i]
        hits == {i \in 1..Len(levels) : near(i)}
    IN  IF levels = <<>> THEN Some(price)
        ELSE IF hits = {} THEN None ELSE Some(levels[SetMin(hits)])

\* the first level of the list within sr_threshold of the price, or None
FirstNear(levels, price) ==
    LET near(i) == 1000 * Abs(price - levels[i]) <= SR_TOUCH_THRESHOLD * levels[i]
        hits == {i \in 1..Len(levels) : near(i)}
    IN  IF hits = {} THEN None ELSE Some(levels[SetMin(hits)])

\* (variant: a body of exactly half the range is a doji too)
detect_engulfing_body_half_is_doji(df, support_levels, resistance_levels) ==
    IF DfLen(df) < MIN_ENGULFING_CANDLES THEN None
    ELSE IF ~HasPrice(df) THEN EXC
    ELSE
      LET prev == Prev(df)
          cur == Cur(df)
          prev_body == Abs(prev.C - prev.O)
          current_body == Abs(cur.C - cur.O)
          current_range == cur.H - cur.L
          strong_body == 10 * current_body > 12 * prev_body
          bull == /\ prev.C < prev.O
                  /\ cur.C > cur.O
                  /\ cur.O <= prev.C /\ cur.C >= prev.O
                  /\ strong_body
          bear == /\ prev.C > prev.O
                  /\ cur.C < cur.O
                  /\ cur.O >= prev.C /\ cur.C <= prev.O
                  /\ strong_body
          sup == FirstNear(support_levels, cur.C)
          res == FirstNear(resistance_levels, cur.C)
      IN  IF current_range > 0 /\ 2 * current_body <= current_range THEN None
          ELSE IF bull /\ IsSome(sup)
               THEN Some([type |-> "BUY",
                          pattern_name |-> "Bullish Engulfing",
                          level |-> Round2(sup[1])])
          ELSE IF bear /\ IsSome(res)
               THEN Some([type |-> "SELL",
                          pattern_name |-> "Bearish Engulfing",
                          level |-> Round2(res[1])])
          ELSE None

detect_engulfing_body(df, support_levels, resistance_levels) ==
    IF DfLen(df) < MIN_ENGULFING_CANDLES THEN None
    ELSE IF ~HasPrice(df) THEN EXC
    ELSE
      LET prev == Prev(df)
          cur == Cur(df)
          prev_body == Abs(prev.C - prev.O)
          current_body == Abs(cur.C - cur.O)
          current_range == cur.H - cur.L
          strong_body == 10 * current_body > 12 * prev_body
          bull == /\ prev.C < prev.O
                  /\ cur.C > cur.O
                  /\ cur.O <= prev.C /\ cur.C >= prev.O
                  /\ strong_body
          bear == /\ prev.C > prev.O
                  /\ cur.C < cur.O
                  /\ cur.O >= prev.C /\ cur.C <= prev.O
                  /\ strong_body
          sup == FirstNear(support_levels, cur.C)
          res == FirstNear(resistance_levels, cur.C)
      IN  IF current_range > 0 /\ 2 * current_body < current_range THEN None
          ELSE IF bull /\ IsSome(sup)
               THEN Some([type |-> "BUY",
                          pattern_name |-> "Bullish Engulfing",
                          level |-> Round2(sup[1])])
          ELSE IF bear /\ IsSome(res)
               THEN Some([type |-> "SELL",
                          pattern_name |-> "Bearish Engulfing",
                          level |-> Round2(res[1])])
          ELSE None

detect_engulfing(df, support_levels, resistance_levels) ==
    log_exceptions(detect_engulfing_body(df, support_levels, resistance_levels))

\* (variant: the volume is compared on series of any length)
validate_engulfing_body_any_length(df, signal) ==
    IF signal = None THEN "False"
    ELSE IF DfLen(df) = 0 THEN "raised"
    ELSE IF ~HasVolume(df) THEN "raised"
    ELSE IF 10 * Cur(df).V * VolCnt20(df) < 9 * VolSum20(df)
         THEN "False"
    ELSE IF ~HasClose(df) THEN "raised"
    ELSE IF 1000 * Abs(Cur(df).C - signal[1].level) > 8 * signal[1].level THEN "False"
    ELSE "True"

validate_engulfing_body(df, signal) ==
    IF signal = None THEN "False"
    ELSE IF DfLen(df) = 0 THEN "raised"
    ELSE IF DfLen(df) >= 20 /\ ~HasVolume(df) THEN "raised"
    ELSE IF DfLen(df) >= 20 /\ 10 * Cur(df).V * VolCnt20(df) < 9 * VolSum20(df)
         THEN "False"
    ELSE IF ~HasClose(df) THEN "raised"
    ELSE IF 1000 * Abs(Cur(df).C - signal[1].level) > 8 * signal[1].level THEN "False"
    ELSE "True"

validate_engulfing(df, signal) ==
    log_exceptions_bool(validate_engulfing_body(df, signal))

----------------------------------------------------------------------------
(* config.py as read by the scanner: the shipped values, and the edits of  *)
(* the trading parameters that config.py invites ("adjust the values       *)
(* above") which the RR gate distinguishes.                                *)

ShippedConfig == [sl |-> STOP_LOSS_PERCENTAGE, t1 |-> TARGET_PERCENTAGE_1,
                  t2 |-> TARGET_PERCENTAGE_2, minrr |-> MIN_RISK_REWARD_RATIO]

ConfigChoices == {ShippedConfig,
                  [ShippedConfig EXCEPT !.t1 = 15],   \* target 1.5 %: RR 1.0
                  [ShippedConfig EXCEPT !.sl = 0]}    \* no stop distance: risk 0

\* symbol.replace('.NS', '')
StripNS(symbol) ==
    CASE symbol = "TCS.NS" -> "TCS"
      [] symbol = "INFY.NS" -> "INFY"
      [] symbol = "ITC.NS" -> "ITC"
      [] OTHER -> symbol

----------------------------------------------------------------------------
(* mid_signal_scanner.py: _build_signal                                    *)

\* stop_loss, target_1, target_2 at full precision, in millionths of a
\* rupee (thousandths * 1000), so that entry * (1 -+ pct/100) is exact
\* (variant: the BUY and SELL branches of the stop exchanged)
StopLoss6Exchanged(entry, signal_type, c) ==
    IF signal_type = "BUY" THEN entry * (1000 + c.sl) ELSE entry * (1000 - c.sl)

StopLoss6(entry, signal_type, c) ==
    IF signal_type = "BUY" THEN entry * (1000 - c.sl) ELSE entry * (1000 + c.sl)

Target6(entry, signal_type, pct) ==
    IF signal_type = "BUY" THEN entry * (1000 + pct) ELSE entry * (1000 - pct)

Risk6(entry, signal_type, c) == Abs(entry * 1000 - StopLoss6(entry, signal_type, c))

\* (variant: the reward taken from the stop distance instead of target_1)
Reward6FromStop(entry, signal_type, c) == Abs(entry * 1000 - StopLoss6(entry, signal_type, c))

Reward6(entry, signal_type, c) == Abs(Target6(entry, signal_type, c.t1) - entry * 1000)

\* (variant: the ratio inverted, risk / reward)
RRTooLowInverted(entry, signal_type, c) ==
    LET risk == Risk6(entry, signal_type, c)
        reward == Reward6(entry, signal_type, c)
    IN  IF reward > 0 THEN 100 * risk < c.minrr * reward ELSE 0 < c.minrr

\* rr_ratio < MIN_RISK_REWARD_RATIO, with rr_ratio = reward / risk if risk > 0 else 0
RRTooLow(entry, signal_type, c) ==
    LET risk == Risk6(entry, signal_type, c)
        reward == Reward6(entry, signal_type, c)
    IN  IF risk > 0 THEN 100 * reward < c.minrr * risk ELSE 0 < c.minrr

\* round(rr_ratio, 2), in hundredths
RRRound2(entry, signal_type, c) ==
    LET risk == Risk6(entry, signal_type, c)
    IN  IF risk > 0 THEN RoundDiv(100 * Reward6(entry, signal_type, c), risk) ELSE 0

\* round(x, 2) of a value held in millionths, result in thousandths
Round2of6(x) == 10 * RoundDiv(x, 10000)

\* Result of _build_signal: [sig, low_rr]; sig is the signal dict or None,
\* low_rr says that the RR gate rejected (the caller of this operator then
\* performs the increment of rejection_stats['low_rr_ratio']).
\* The dict's timestamp, dataframe and pattern_details texts are left out.
build_signal(df, symbol, pattern_signal, support_levels, resistance_levels, c) ==
    IF ~HasClose(df) THEN [sig |-> None, low_rr |-> FALSE]
    ELSE
      LET entry_price == Cur(df).C
          signal_type == pattern_signal[1].type
          vol == check_volume_confirmation(df)
          rsi == calculate_rsi(df)
          confirmations ==
              (IF vol.confirmed THEN <<"Volume">> ELSE <<>>) \o
              (IF \/ signal_type = "BUY" /\ RsiLT(rsi, 45)
                  \/ signal_type = "SELL" /\ RsiGT(rsi, 55)
               THEN <<"RSI">> ELSE <<>>)
      IN  IF RRTooLow(entry_price, signal_type, c)
          THEN [sig |-> None, low_rr |-> TRUE]
          ELSE [sig |-> Some(
                 [symbol |-> StripNS(symbol),
                  signal_type |-> signal_type,
                  pattern_name |-> pattern_signal[1].pattern_name,
                  entry_price |-> Round2(entry_price),
                  stop_loss |-> Round2of6(StopLoss6(entry_price, signal_type, c)),
                  target_1 |-> Round2of6(Target6(entry_price, signal_type, c.t1)),
                  target_2 |-> Round2of6(Target6(entry_price, signal_type, c.t2)),
                  risk_reward |-> RRRound2(entry_price, signal_type, c),
                  rsi_value |-> RsiRound2(rsi),
                  volume_ratio |-> RoundDiv(100 * vol.num, vol.den),
                  volume_confirmed |-> vol.confirmed,
                  support_levels |-> Take(support_levels, SIGNAL_LEVELS),
                  resistance_levels |-> Take(resistance_levels, SIGNAL_LEVELS),
                  confirmations |-> confirmations]),
                low_rr |-> FALSE]

----------------------------------------------------------------------------
(* Provider data.  What yfinance answers for a symbol is an input; it is   *)
(* drawn from the series below.  Each is a quiet history followed by the   *)
(* last two candles, which are the only ones the detectors look at         *)
(* besides the window extremes, the volume mean and the RSI.               *)

Candle(o, h, l, c, v) == [O |-> o, H |-> h, L |-> l, C |-> c, V |-> v]

\* quiet candles around 100.5 and around 99.5
Flat == Candle(100500, 100600, 100400, 100500, 100)

FlatLow == Candle(99500, 99600, 99400, 99500, 100)

\* k quiet candles followed by prev and cur
Series(base, k, prev, cur) == [i \in 1..k |-> base] \o <<prev, cur>>

Frame(cols, c) == [cols |-> cols, c |-> c]

\* number of quiet candles in front of the last two (a model bound: the
\* series then has HistLen + 2 >= 30 candles)
HistLen == 28

\* bullish sweep below the prior lows that is also a false breakdown of the
\* round-number support 100.00, on good volume
SweepAndBreakoutBuy ==
    Series(Flat, HistLen, Candle(100500, 100600, 99600, 99800, 200),
                          Candle(99900, 100300, 99400, 100300, 150))

\* the same candles, current volume too low for validate_sweep
SweepLowVolumeBreakoutBuy ==
    Series(Flat, HistLen, Candle(100500, 100600, 99600, 99800, 200),
                          Candle(99900, 100300, 99400, 100300, 50))

\* bullish sweep closing at exactly 100.000, no other pattern
SweepOnlyBuy ==
    Series(Flat, HistLen, Candle(100500, 100600, 99500, 99700, 100),
                          Candle(99600, 100000, 99100, 100000, 150))

\* bullish engulfing at the support 100.00, no sweep, no breakout
EngulfingOnlyBuy ==
    Series(Flat, HistLen, Candle(100400, 100500, 100000, 100100, 100),
                          Candle(100050, 100500, 100000, 100450, 150))

\* false breakdown of 100.00 whose reversal candle also engulfs
BreakoutAndEngulfingBuy ==
    Series(Flat, HistLen, Candle(100300, 100400, 99600, 99900, 200),
                          Candle(99850, 100450, 99800, 100400, 150))

\* sweep with wick = body = half the range after two rising closes (RSI
\* 100), engulfing the previous candle near the swept low
SweepOverboughtEngulfingBuy ==
    Series(Flat, HistLen, Candle(100800, 100900, 100500, 100600, 100),
                          Candle(100600, 100900, 100300, 100900, 100))

\* bearish mirror of SweepAndBreakoutBuy around the resistance 100.00
SweepAndBreakoutSell ==
    Series(FlatLow, HistLen, Candle(99500, 100400, 99400, 100200, 200),
                             Candle(100100, 100600, 99700, 99700, 150))

\* nothing but quiet candles
Quiet == Series(Flat, HistLen, Flat, Flat)

\* a series shorter than 30 candles (but at least 10)
ShortSeries == Series(Flat, 10, Flat, Flat)

\* a series shorter than 10 candles
TinySeries == Series(Flat, 3, Flat, Flat)

\* a history resting at exactly 100.00
Still == Candle(100000, 100000, 100000, 100000, 100)

\* bullish sweep within half a paisa of 100.00: the window's low (99.996)
\* and high (100.000) both round to the close, so that both level lists
\* are empty
SweepNoLevels ==
    Series(Still, HistLen, Still, Candle(99998, 100000, 99996, 100000, 150))

\* bullish engulfing within half a paisa of 100.00, both level lists empty
EngulfingNoLevels ==
    Series(Still, HistLen, Candle(100000, 100000, 99998, 99998, 100),
                           Candle(99997, 100000, 99996, 100000, 150))

\* One provider answer: kind "df" (a frame), "empty" (None or no rows) or
\* "raise" (the download and its fallback raised)
Answer(kind, df) == [kind |-> kind, df |-> df]

NoFrame == Frame("none", <<>>)

Empty == Answer("empty", NoFrame)

Raises == Answer("raise", NoFrame)

Full(c) == Answer("df", Frame("ohlcv", c))

\* A feed is what the provider answers for period '1d' and for '2d'
Feed(a1, a2) == [d1 |-> a1, d2 |-> a2]

FeedChoices ==
    {Feed(Full(SweepAndBreakoutBuy), Full(SweepAndBreakoutBuy)),
     Feed(Full(SweepLowVolumeBreakoutBuy), Full(SweepLowVolumeBreakoutBuy)),
     Feed(Full(SweepOnlyBuy), Full(SweepOnlyBuy)),
     Feed(Full(EngulfingOnlyBuy), Full(EngulfingOnlyBuy)),
     Feed(Full(BreakoutAndEngulfingBuy), Full(BreakoutAndEngulfingBuy)),
     Feed(Full(SweepOverboughtEngulfingBuy), Full(SweepOverboughtEngulfingBuy)),
     Feed(Full(SweepAndBreakoutSell), Full(SweepAndBreakoutSell)),
     Feed(Full(Quiet), Full(Quiet)),
     Feed(Full(ShortSeries), Full(ShortSeries)),
     Feed(Full(TinySeries), Full(SweepOnlyBuy)),
     Feed(Full(TinySeries), Full(TinySeries)),
     Feed(Answer("df", Frame("ohlc", SweepAndBreakoutBuy)),
          Answer("df", Frame("ohlc", SweepAndBreakoutBuy))),
     Feed(Answer("df", Frame("none", Quiet)), Answer("df", Frame("none", Quiet))),
     Feed(Answer("df", Frame("ocv", SweepAndBreakoutBuy)),
          Answer("df", Frame("ocv", SweepAndBreakoutBuy))),
     Feed(Full(SweepNoLevels), Full(SweepNoLevels)),
     Feed(Full(EngulfingNoLevels), Full(EngulfingNoLevels)),
     Feed(Empty, Empty),
     Feed(Raises, Empty)}

----------------------------------------------------------------------------
(* Bounds of the model                                                     *)

\* the symbol universe (config.NIFTY_50_STOCKS, cut down)
Symbols == {"TCS.NS", "INFY.NS"}

\* invocations of scan_stock, over all symbols
MaxCalls == 2

\* the clock advances MaxTicks times by TickSeconds seconds
MaxTicks == 1

TickSeconds == 60

\* the feeds of the symbols: any feed for the first symbol, one of three
\* for the others
OtherFeedChoices ==
    {Feed(Empty, Empty),
     Feed(Full(SweepOnlyBuy), Full(SweepOnlyBuy)),
     Feed(Answer("df", Frame("none", Quiet)), Answer("df", Frame("none", Quiet)))}

Universes == {f \in [Symbols -> FeedChoices] :
                \A s \in Symbols \ {"TCS.NS"} : f[s] \in OtherFeedChoices}

----------------------------------------------------------------------------
(* State                                                                   *)

VARIABLES
    cfg,              \* the values of config.py the scanner reads
    feed,             \* feed[symbol]: what the provider answers
    now,              \* datetime.now(), in seconds
    cache,            \* DataFetcher.cache: key -> None or (cache_time, df)
    rejection_stats,  \* MidStrategyScanner.rejection_stats
    task,             \* task[symbol]: the invocation of scan_stock(symbol)
    scan_result,      \* what the last scan_all_stocks returned
    calls,            \* number of scan_stock invocations so far
    probe,            \* a direct call of an indicator or detector function:
                      \* its arguments and, once applied, its result
    bot               \* MidStrategyBot: is_running, the number of
                      \* trading_loop tasks alive, the clock in seconds of
                      \* the day, and the signal messages sent to the chat

vars == <<cfg, feed, now, cache, rejection_stats, task, scan_result, calls, probe,
          bot>>

StatKeys == {"no_data", "insufficient_candles", "sweep_detected", "sweep_rejected",
             "breakout_detected", "breakout_rejected", "engulfing_detected",
             "engulfing_rejected", "low_rr_ratio", "total_scanned"}

Periods == {"1d", "2d"}

CacheKeys == Symbols \X Periods

NoLevels == [support |-> <<>>, resistance |-> <<>>]

\* A task between invocations.  log lists, in order, what the current (or
\* the last) invocation did, as pairs: <<"inc", key>> an increment of
\* rejection_stats[key] was written, <<"fetch", "">>, <<"levels", "">>,
\* <<"detect", stage>>, <<"validate", stage>>, <<"build", stage>> the call
\* was made, <<"signal", stage>> the stage's signal was returned,
\* <<"error", "">> the except clause of scan_stock ran.  ret is what the
\* last invocation returned, runs the number of completed invocations.
\* alone records that no other invocation was in progress when the current
\* (or the last) one started.
IdleTask == [pc |-> "idle", ctr |-> "total_scanned", tmp |-> 0, stage |-> "sweep",
             df |-> None, levels |-> NoLevels, match |-> None, ret |-> None,
             log |-> <<>>, runs |-> 0, hit |-> FALSE, alone |-> TRUE]

\* Arguments of a direct call of one of the functions of indicators.py and
\* of the detectors: the frame, the level lists, the match handed to a
\* validate function.  op names the function applied ("input": none yet),
\* match / verdict / levels / rsi hold what a detect / a validate / the
\* level computation / calculate_rsi returned.  answers are the provider's
\* answers to the attempts of a fetch_stock_data call, fetched its result.
Probe(df, support_levels, resistance_levels, signal) ==
    [op |-> "input", df |-> df, support |-> support_levels,
     resistance |-> resistance_levels, signal |-> signal,
     match |-> None, verdict |-> "", levels |-> NoLevels,
     rsi |-> [kind |-> "nan", g |-> 0, l |-> 0],
     answers |-> <<>>, fetched |-> [df |-> None, attempts |-> 0]]

NoProbe == Probe([cols |-> "ohlcv", c |-> <<>>], <<>>, <<>>, None)

\* approval.py.  Telegram user ids; config.ADMIN_USER_ID stands for
\* 6837532865, of which only the identity matters.
ADMIN_USER_ID == "admin"

Users == {ADMIN_USER_ID, "u1", "u2"}

\* approved_users.json: absent, unreadable (json.load raises), or the list
\* written by save_approved_users
AbsentFile == [kind |-> "absent", users |-> <<>>]

CorruptFile == [kind |-> "corrupt", users |-> <<>>]

UsersFile(q) == [kind |-> "users", users |-> q]

\* load_approved_users (lines 13-25): set(data['users']); the admin alone
\* when the file is absent or cannot be read
load_approved_users(file) ==
    IF file.kind = "users" THEN {file.users[i] : i \in 1..Len(file.users)}
    ELSE {ADMIN_USER_ID}

\* list(users): the members in some order
Listings(users) ==
    {q \in [1..Cardinality(users) -> users] :
        \A i, j \in 1..Cardinality(users) : i # j => q[i] # q[j]}

\* save_approved_users (lines 27-35): the files it can leave behind.  The
\* list is written; or open() fails and the file stays; or the write fails
\* after open() truncated the file.  The exception is logged, not raised.
save_approved_users(file, users) ==
    {UsersFile(q) : q \in Listings(users)} \cup {file, CorruptFile}

\* is_user_approved (lines 37-40)
is_user_approved(file, user_id) == user_id \in load_approved_users(file)

\* (variant: the admin can be removed like any other user)
remove_user_any(file, user_id) ==
    LET approved_users == load_approved_users(file)
    IN  IF user_id \notin approved_users THEN [ret |-> FALSE, files |-> {file}]
        ELSE [ret |-> TRUE,
              files |-> save_approved_users(file, approved_users \ {user_id})]

\* remove_user (lines 54-68): [ret, files], the value returned and the
\* files the call can leave behind
remove_user(file, user_id) ==
    LET approved_users == load_approved_users(file)
    IN  IF user_id = ADMIN_USER_ID THEN [ret |-> FALSE, files |-> {file}]
        ELSE IF user_id \notin approved_users THEN [ret |-> FALSE, files |-> {file}]
        ELSE [ret |-> TRUE,
              files |-> save_approved_users(file, approved_users \ {user_id})]

\* add_user (lines 42-52): [ret, files]
add_user(file, user_id) ==
    LET approved_users == load_approved_users(file)
    IN  IF user_id \in approved_users THEN [ret |-> FALSE, files |-> {file}]
        ELSE [ret |-> TRUE,
              files |-> save_approved_users(file, approved_users \cup {user_id})]

\* The update (or direct call of approval.py) handled last: the command, who
\* sent it, its argument and, for a direct call, the value returned.  seq
\* alternates, so that a repeated update is a step.
Update(cmd, user, arg, ret, seq) ==
    [cmd |-> cmd, user |-> user, arg |-> arg, ret |-> ret, seq |-> seq]

NoUpdate == Update("", "", "", FALSE, 0)

\* MidStrategyBot.__init__ (telegram_bot.py:20-28): not running, nothing sent;
\* no approvals file yet
NewBot == [is_running |-> FALSE, loops |-> 0, clock |-> 0, chat |-> <<>>,
           file |-> AbsentFile, last |-> NoUpdate]

Init ==
    /\ probe = NoProbe
    /\ bot = NewBot
    /\ cfg \in ConfigChoices
    /\ feed \in Universes
    /\ now = 0
    /\ cache = [k \in CacheKeys |-> None]
    /\ rejection_stats = [k \in StatKeys |-> 0]
    /\ task = [s \in Symbols |-> IdleTask]
    /\ scan_result = [returned |-> FALSE, is_list |-> FALSE, signals |-> <<>>]
    /\ calls = 0

----------------------------------------------------------------------------
(* data_fetcher.py                                                         *)

\* the methods of class DataFetcher
DataFetcherMethods == {"fetch_stock_data", "fetch_intraday_data", "get_market_status",
                       "get_current_price", "validate_data", "clear_cache",
                       "test_connection"}

\* (variant: one more retry, `retry_count <= self.max_retries`)
RECURSIVE fetch_attempt_retry_le(_, _)
fetch_attempt_retry_le(answers, retry_count) ==
    LET a == answers[retry_count + 1]
    IN  IF a.kind \in {"empty", "raise"}
        THEN IF retry_count <= max_retries
             THEN fetch_attempt_retry_le(answers, retry_count + 1)
             ELSE [df |-> None, attempts |-> retry_count + 1]
        ELSE IF DfLen(a.df) = 0
        THEN [df |-> None, attempts |-> retry_count + 1]
        ELSE [df |-> Some(a.df), attempts |-> retry_count + 1]

\* fetch_stock_data behind its cache check (lines 47-129) at retry_count,
\* the provider answering answers[n] at the n-th attempt: an empty answer
\* (line 82) and an exception (line 119) are retried while
\* retry_count < max_retries; a frame ends the retries, with None if no row
\* is left after dropna (lines 94-98).  [df, attempts]
RECURSIVE fetch_attempt(_, _)
fetch_attempt(answers, retry_count) ==
    LET a == answers[retry_count + 1]
    IN  IF a.kind \in {"empty", "raise"}
        THEN IF retry_count < max_retries
             THEN fetch_attempt(answers, retry_count + 1)
             ELSE [df |-> None, attempts |-> retry_count + 1]
        ELSE IF DfLen(a.df) = 0
        THEN [df |-> None, attempts |-> retry_count + 1]
        ELSE [df |-> Some(a.df), attempts |-> retry_count + 1]

\* the provider gives the same answer at every attempt
Steady(a) == [n \in 1..(max_retries + 2) |-> a]

\* (variant: an entry stored cache_duration seconds ago is still used)
fetch_stock_data_le(cch, symbol, period, t, a) ==
    LET key == <<symbol, period>>
        r == fetch_attempt(Steady(a), 0)
    IN  IF IsSome(cch[key]) /\ t - cch[key][1].time <= cache_duration
        THEN [df |-> Some(cch[key][1].df), cache |-> cch, hit |-> TRUE, attempts |-> 0]
        ELSE IF r.df = None
        THEN [df |-> None, cache |-> cch, hit |-> FALSE, attempts |-> r.attempts]
        ELSE [df |-> r.df,
              cache |-> [cch EXCEPT ![key] = Some([time |-> t, df |-> r.df[1]])],
              hit |-> FALSE, attempts |-> r.attempts]

\* fetch_stock_data(symbol, period, '5m') at clock t with cache cch and
\* provider answer a: [df, cache, hit, attempts]
fetch_stock_data(cch, symbol, period, t, a) ==
    LET key == <<symbol, period>>
        r == fetch_attempt(Steady(a), 0)
    IN  IF IsSome(cch[key]) /\ t - cch[key][1].time < cache_duration
        THEN [df |-> Some(cch[key][1].df), cache |-> cch, hit |-> TRUE, attempts |-> 0]
        ELSE IF r.df = None
        THEN [df |-> None, cache |-> cch, hit |-> FALSE, attempts |-> r.attempts]
        ELSE [df |-> r.df,
              cache |-> [cch EXCEPT ![key] = Some([time |-> t, df |-> r.df[1]])],
              hit |-> FALSE, attempts |-> r.attempts]

fetch_intraday_data(cch, symbol, t, f) ==
    LET r1 == fetch_stock_data(cch, symbol, "1d", t, f.d1)
        r2 == fetch_stock_data(r1.cache, symbol, "2d", t, f.d2)
    IN  IF IsSome(r1.df) /\ DfLen(r1.df[1]) >= MIN_INTRADAY_CANDLES THEN r1
        ELSE [r2 EXCEPT !.attempts = r1.attempts + r2.attempts]

----------------------------------------------------------------------------
(* mid_signal_scanner.py: scan_stock.  One invocation runs in its own      *)
(* thread; it is cut into steps at its accesses to shared state            *)
(* (rejection_stats, the fetcher's cache).  `x += 1` on a dict entry is a  *)
(* read followed by a write, and another thread may run in between.        *)

\* (variant: the False Breakout block placed in front of the Sweep block)
StageOrderBreakoutFirst == <<"breakout", "sweep", "engulfing">>

\* the detector stages in the order scan_stock runs them
StageOrder == <<"sweep", "breakout", "engulfing">>

StageIndex(stage) == CHOOSE i \in 1..Len(StageOrder) : StageOrder[i] = stage

DetectedKey(stage) ==
    CASE stage = "sweep" -> "sweep_detected"
      [] stage = "breakout" -> "breakout_detected"
      [] OTHER -> "engulfing_detected"

RejectedKey(stage) ==
    CASE stage = "sweep" -> "sweep_rejected"
      [] stage = "breakout" -> "breakout_rejected"
      [] OTHER -> "engulfing_rejected"

Detect(stage, df, levels) ==
    CASE stage = "sweep" -> detect_sweep(df)
      [] stage = "breakout" -> detect_false_breakout(df, levels.support, levels.resistance)
      [] OTHER -> detect_engulfing(df, levels.support, levels.resistance)

Validate(stage, df, signal) ==
    CASE stage = "sweep" -> validate_sweep(df, signal)
      [] stage = "breakout" -> validate_false_breakout(df, signal)
      [] OTHER -> validate_engulfing(df, signal)

\* the invocation returns r
Returned(t, r) == [t EXCEPT !.pc = "idle", !.ret = r, !.runs = @ + 1]

\* the invocation goes on to increment rejection_stats[key]
StartInc(t, key) == [t EXCEPT !.pc = "inc_read", !.ctr = key]

\* control after the detector stage `stage` ended without a signal: the next
\* detector's block, or `return None` after the last one
AfterStage(t, stage) ==
    IF StageIndex(stage) < Len(StageOrder)
    THEN [t EXCEPT !.pc = "detect", !.stage = StageOrder[StageIndex(stage) + 1],
                   !.match = None]
    ELSE Returned(t, None)

\* (variant: a failed validation ends the symbol instead of falling through)
AfterIncAbandon(t, key) ==
    CASE key = "total_scanned" -> [t EXCEPT !.pc = "fetch"]
      [] key \in {"no_data", "insufficient_candles"} -> Returned(t, None)
      [] key \in {"sweep_detected", "breakout_detected", "engulfing_detected"} ->
             [t EXCEPT !.pc = "validate"]
      [] key = "low_rr_ratio" -> AfterStage(t, t.stage)
      [] OTHER -> Returned(t, None)

\* control after the increment of rejection_stats[key] was written
AfterInc(t, key) ==
    CASE key = "total_scanned" -> [t EXCEPT !.pc = "fetch"]
      [] key \in {"no_data", "insufficient_candles"} -> Returned(t, None)
      [] key \in {"sweep_detected", "breakout_detected", "engulfing_detected"} ->
             [t EXCEPT !.pc = "validate"]
      [] OTHER -> AfterStage(t, t.stage)   \* a *_rejected key or low_rr_ratio

\* (variant: the exception leaves scan_stock, the invocation never returns)
ExceptedPropagates(t) == [t EXCEPT !.pc = "raised", !.log = Append(@, <<"error", "">>)]

\* the except clause of scan_stock, lines 131-134
Excepted(t) == Returned([t EXCEPT !.log = Append(@, <<"error", "">>)], None)

\* lines 73-76: the levels and current_price; df['Close'] raises on a frame
\* without price columns, which the except of line 131 turns into None
LevelsStep(t) ==
    LET df == t.df[1]
        t1 == [t EXCEPT !.levels = calculate_support_resistance(df),
                        !.log = Append(@, <<"levels", "">>)]
    IN  IF ~HasClose(df) THEN Excepted(t1)
        ELSE [t1 EXCEPT !.pc = "detect", !.stage = StageOrder[1]]

\* lines 79-81, 96-98, 113-115: the stage's detect call; an exception it
\* let through would end the invocation in the except clause
DetectStep(t) ==
    LET m == Detect(t.stage, t.df[1], t.levels)
        t1 == [t EXCEPT !.match = m, !.log = Append(@, <<"detect", t.stage>>)]
    IN  IF m = EXC THEN Excepted([t1 EXCEPT !.match = None])
        ELSE IF IsSome(m) THEN StartInc(t1, DetectedKey(t.stage))
        ELSE AfterStage(t1, t.stage)

\* (variant: a built signal is kept in `signal` but not returned at once, the
\* following detector blocks still run)
ValidateStepNoReturn(t, symbol, c) ==
    LET df == t.df[1]
        v == Validate(t.stage, df, t.match)
        b == build_signal(df, symbol, t.match, t.levels.support,
                          t.levels.resistance, c)
        t1 == [t EXCEPT !.log = Append(@, <<"validate", t.stage>>)]
        tb == [t1 EXCEPT !.log = Append(@, <<"build", t.stage>>)]
    IN  IF v = "raised" THEN Excepted(t1)
        ELSE IF v # "True" THEN StartInc(t1, RejectedKey(t.stage))
        ELSE IF IsSome(b.sig)
             THEN AfterStage([tb EXCEPT !.log = Append(@, <<"signal", t.stage>>),
                                        !.ret = b.sig], t.stage)
        ELSE IF b.low_rr THEN StartInc(tb, "low_rr_ratio")
        ELSE AfterStage(tb, t.stage)

\* lines 84-93, 101-110, 118-127: the stage's validate call and, when it
\* accepts, _build_signal
ValidateStep(t, symbol, c) ==
    LET df == t.df[1]
        v == Validate(t.stage, df, t.match)
        b == build_signal(df, symbol, t.match, t.levels.support,
                          t.levels.resistance, c)
        t1 == [t EXCEPT !.log = Append(@, <<"validate", t.stage>>)]
        tb == [t1 EXCEPT !.log = Append(@, <<"build", t.stage>>)]
    IN  IF v = "raised" THEN Excepted(t1)
        ELSE IF v # "True" THEN StartInc(t1, RejectedKey(t.stage))
        ELSE IF IsSome(b.sig)
             THEN Returned([tb EXCEPT !.log = Append(@, <<"signal", t.stage>>)], b.sig)
        ELSE IF b.low_rr THEN StartInc(tb, "low_rr_ratio")
        ELSE AfterStage(tb, t.stage)

\* the thread-local code of scan_stock from the position t.pc up to its next
\* access to shared state (an increment, the fetch) or its return
RECURSIVE RunLocal(_, _, _)
RunLocal(t, symbol, c) ==
    CASE t.pc = "levels" -> RunLocal(LevelsStep(t), symbol, c)
      [] t.pc = "detect" -> RunLocal(DetectStep(t), symbol, c)
      [] t.pc = "validate" -> RunLocal(ValidateStep(t, symbol, c), symbol, c)
      [] OTHER -> t

\* a caller invokes scan_stock(symbol)
Call(s) ==
    /\ task[s].pc = "idle"
    /\ calls < MaxCalls
    /\ calls' = calls + 1
    /\ task' = [task EXCEPT ![s] =
                  [IdleTask EXCEPT !.pc = "inc_read", !.ctr = "total_scanned",
                                   !.runs = task[s].runs,
                                   !.alone = \A o \in Symbols \ {s} :
                                                task[o].pc = "idle"]]
    /\ UNCHANGED <<cfg, feed, now, cache, rejection_stats, scan_result, probe, bot>>

\* the read half of rejection_stats[ctr] += 1
IncRead(s) ==
    /\ task[s].pc = "inc_read"
    /\ task' = [task EXCEPT ![s].pc = "inc_write",
                            ![s].tmp = rejection_stats[task[s].ctr]]
    /\ UNCHANGED <<cfg, feed, now, cache, rejection_stats, scan_result, calls, probe, bot>>

\* the write half, followed by the thread-local code behind it
IncWrite(s) ==
    /\ task[s].pc = "inc_write"
    /\ rejection_stats' = [rejection_stats EXCEPT ![task[s].ctr] = task[s].tmp + 1]
    /\ task' = [task EXCEPT ![s] =
                  RunLocal(AfterInc([task[s] EXCEPT !.log = Append(@, <<"inc", task[s].ctr>>),
                                                    !.tmp = 0],
                                    task[s].ctr), s, cfg)]
    /\ UNCHANGED <<cfg, feed, now, cache, scan_result, calls, probe, bot>>

\* lines 60-70: fetch_intraday_data and the two data checks, followed by the
\* thread-local code behind them
Fetch(s) ==
    /\ task[s].pc = "fetch"
    /\ LET r == fetch_intraday_data(cache, s, now, feed[s])
           t == [task[s] EXCEPT !.df = r.df, !.hit = r.hit,
                                    !.log = Append(@, <<"fetch", "">>)]
       IN  /\ cache' = r.cache
           /\ task' = [task EXCEPT ![s] =
                         IF r.df = None THEN StartInc(t, "no_data")
                         ELSE IF DfLen(r.df[1]) < MIN_SCAN_CANDLES
                              THEN StartInc(t, "insufficient_candles")
                         ELSE RunLocal([t EXCEPT !.pc = "levels"], s, cfg)]
    /\ UNCHANGED <<cfg, feed, now, rejection_stats, scan_result, calls, probe, bot>>

----------------------------------------------------------------------------
(* mid_signal_scanner.py: scan_all_stocks                                  *)

\* Line 224 calls self.data_fetcher.start_new_scan(); DataFetcher has no
\* such method, the AttributeError leaves the function through
\* @log_exceptions, which returns None.  Lines 227-257 (the reset of
\* rejection_stats, the worker pool, the collection of the results) are
\* never reached.
ScanAllStocks ==
    /\ "start_new_scan" \notin DataFetcherMethods
    /\ scan_result' = [returned |-> TRUE, is_list |-> FALSE, signals |-> <<>>]
    /\ UNCHANGED <<cfg, feed, now, cache, rejection_stats, task, calls, probe, bot>>

\* time passes
Tick ==
    /\ now < MaxTicks * TickSeconds
    /\ now' = now + TickSeconds
    /\ UNCHANGED <<cfg, feed, cache, rejection_stats, task, scan_result, calls, probe, bot>>

Next ==
    \/ \E s \in Symbols : Call(s)
    \/ \E s \in Symbols : IncRead(s)
    \/ \E s \in Symbols : IncWrite(s)
    \/ \E s \in Symbols : Fetch(s)
    \/ ScanAllStocks
    \/ Tick

Spec == Init /\ [][Next]_vars

\* The scanner with the threads of the pool scheduled and the data provider
\* returning: a started invocation of scan_stock takes its next step.
LiveFeedChoices ==
    {Feed(Full(SweepOnlyBuy), Full(SweepOnlyBuy)),
     Feed(Full(TinySeries), Full(SweepOnlyBuy)),
     Feed(Answer("df", Frame("ohlc", SweepAndBreakoutBuy)),
          Answer("df", Frame("ohlc", SweepAndBreakoutBuy))),
     Feed(Answer("df", Frame("none", Quiet)), Answer("df", Frame("none", Quiet))),
     Feed(Empty, Empty)}

LiveInit ==
    /\ Init
    /\ cfg = ShippedConfig
    /\ feed["TCS.NS"] \in LiveFeedChoices

\* WF_vars(IncWrite(s)) and WF_vars(Fetch(s)) with ENABLED written as the
\* action's guard: the step is enabled exactly at the position `at`, and it
\* is the only step that changes task[s] there
WeakFairAt(s, at) ==
    \/ []<>(task[s].pc # at)
    \/ []<><<task[s].pc = at /\ task'[s] # task[s]>>_vars

LiveSpec ==
    /\ LiveInit
    /\ [][Next]_vars
    /\ \A s \in Symbols : /\ WF_vars(IncRead(s))
                          /\ WeakFairAt(s, "inc_write")
                          /\ WeakFairAt(s, "fetch")

----------------------------------------------------------------------------
(* telegram_bot.py                                                         *)

\* signals handed to send_signal: their symbol and direction
SentSignals ==
    {[symbol |-> "TCS", signal_type |-> "BUY"],
     [symbol |-> "TCS", signal_type |-> "SELL"]}

\* messages the chat can hold in the model
MaxSent == 11

\* the last second of the day the bot's clock reaches in the model
MaxBotClock == 300

\* trading_loop tasks alive at once in the model
MaxLoops == 2

\* send_signal (lines 227-260) for the signal at the clock `at`: the message
\* is sent; nothing is compared with earlier messages or counted
Sent(chat, signal, at) ==
    Append(chat, [symbol |-> signal.symbol, signal_type |-> signal.signal_type,
                  at |-> at])

\* `for signal in signals: await self.send_signal(signal)`
RECURSIVE Deliver(_, _, _)
Deliver(chat, signals, at) ==
    IF signals = <<>> THEN chat
    ELSE Deliver(Sent(chat, Head(signals), at), Tail(signals), at)

BotUnchanged ==
    UNCHANGED <<cfg, feed, now, cache, rejection_stats, task, calls, probe>>

\* /autotrade on (lines 100-112) and off (lines 114-120)
AutotradeOn ==
    /\ ~bot.is_running
    /\ bot.loops < MaxLoops
    /\ bot' = [bot EXCEPT !.is_running = TRUE, !.loops = @ + 1]
    /\ UNCHANGED scan_result
    /\ BotUnchanged

AutotradeOff ==
    /\ bot.is_running
    /\ bot' = [bot EXCEPT !.is_running = FALSE]
    /\ UNCHANGED scan_result
    /\ BotUnchanged

\* one round of trading_loop (lines 266-282): with the market closed it
\* sleeps; otherwise it runs scan_all_stocks, which returns None (line 224 of
\* mid_signal_scanner.py raises), sends what the scan returned and sleeps
\* SCAN_INTERVAL
\* (variant: `while True`)
LoopConditionAlways(b) == b = b

\* `while self.is_running` (line 266)
LoopCondition(b) == b.is_running

TradingLoop ==
    /\ bot.loops > 0
    /\ LoopCondition(bot)
    /\ bot.clock + SCAN_INTERVAL <= MaxBotClock
    /\ \E market_open \in BOOLEAN :
          IF ~market_open
          THEN /\ bot' = [bot EXCEPT !.clock = @ + MARKET_CLOSED_SLEEP]
               /\ UNCHANGED scan_result
          ELSE /\ "start_new_scan" \notin DataFetcherMethods
               /\ scan_result' = [returned |-> TRUE, is_list |-> FALSE, signals |-> <<>>]
               /\ bot' = [bot EXCEPT !.chat = Deliver(@, scan_result'.signals, bot.clock),
                                     !.clock = @ + SCAN_INTERVAL]
    /\ BotUnchanged

\* `while self.is_running` (line 266) ends a trading_loop task
LoopExit ==
    /\ bot.loops > 0
    /\ ~LoopCondition(bot)
    /\ bot' = [bot EXCEPT !.loops = @ - 1]
    /\ UNCHANGED scan_result
    /\ BotUnchanged

\* /scan (lines 176-191): a manual scan, sending what the scan returned
ScanCommand ==
    /\ "start_new_scan" \notin DataFetcherMethods
    /\ scan_result' = [returned |-> TRUE, is_list |-> FALSE, signals |-> <<>>]
    /\ bot' = [bot EXCEPT !.chat = Deliver(@, scan_result'.signals, bot.clock)]
    /\ BotUnchanged

\* send_signal(signal) invoked on a signal; the send may fail, which the
\* except clause of line 259 logs
SendSignal(signal) ==
    /\ Len(bot.chat) < MaxSent
    /\ \E delivered \in BOOLEAN :
          bot' = [bot EXCEPT !.chat = IF delivered THEN Sent(@, signal, bot.clock)
                                       ELSE @]
    /\ UNCHANGED scan_result
    /\ BotUnchanged

BotInit ==
    /\ probe = NoProbe
    /\ bot = NewBot
    /\ cfg = ShippedConfig
    /\ feed = [s \in Symbols |-> Feed(Empty, Empty)]
    /\ now = 0
    /\ cache = [k \in CacheKeys |-> None]
    /\ rejection_stats = [k \in StatKeys |-> 0]
    /\ task = [s \in Symbols |-> IdleTask]
    /\ scan_result = [returned |-> FALSE, is_list |-> FALSE, signals |-> <<>>]
    /\ calls = 0

BotNext ==
    \/ AutotradeOn
    \/ AutotradeOff
    \/ TradingLoop
    \/ LoopExit
    \/ ScanCommand
    \/ \E signal \in SentSignals : SendSignal(signal)

BotSpec == BotInit /\ [][BotNext]_vars

----------------------------------------------------------------------------
(* telegram_bot.py: the command handlers, with the user who sent the       *)
(* update                                                                  *)

\* context.args[0] of /adduser: a user id, text that int() rejects, or no
\* argument
AdduserArgs == Users \cup {"abc", ""}

\* context.args[0] of /autotrade
AutotradeArgs == {"on", "off", "maybe", ""}

\* adduser_command line 72: `admin_id != config.ADMIN_USER_ID` returns
MayAddUser(file, user_id) == user_id = ADMIN_USER_ID

\* (variant: the handlers do not ask for approval)
MayCommandAnyone(file, user_id) == user_id \in Users

\* autotrade_command line 92 and scan_command line 179:
\* `if not is_user_approved(user_id): return`
MayCommand(file, user_id) == is_user_approved(file, user_id)

\* /adduser [arg] sent by user (lines 68-87)
AdduserCommand(user, arg) ==
    /\ \E f \in (IF MayAddUser(bot.file, user) /\ arg \in Users
                  THEN add_user(bot.file, arg).files
                  ELSE {bot.file}) :
          bot' = [bot EXCEPT !.file = f,
                             !.last = Update("/adduser", user, arg, FALSE, 1 - bot.last.seq)]
    /\ UNCHANGED scan_result
    /\ BotUnchanged

\* /autotrade [arg] sent by user (lines 89-124); asyncio.create_task starts
\* a trading_loop
AutotradeCommand(user, arg) ==
    /\ arg = "on" /\ ~bot.is_running => bot.loops < MaxLoops
    /\ LET seen == [bot EXCEPT !.last = Update("/autotrade", user, arg, FALSE,
                                               1 - bot.last.seq)]
       IN  bot' = IF ~MayCommand(bot.file, user) THEN seen
                  ELSE IF arg = "on" /\ ~bot.is_running
                       THEN [seen EXCEPT !.is_running = TRUE, !.loops = @ + 1]
                  ELSE IF arg = "off" /\ bot.is_running
                       THEN [seen EXCEPT !.is_running = FALSE]
                  ELSE seen
    /\ UNCHANGED scan_result
    /\ BotUnchanged

\* /scan sent by user (lines 176-191)
ScanCommandBy(user) ==
    /\ "start_new_scan" \notin DataFetcherMethods
    /\ scan_result' = IF MayCommand(bot.file, user)
                      THEN [returned |-> TRUE, is_list |-> FALSE, signals |-> <<>>]
                      ELSE scan_result
    /\ bot' = [bot EXCEPT !.chat = IF MayCommand(bot.file, user)
                                   THEN Deliver(@, scan_result'.signals, bot.clock)
                                   ELSE @,
                          !.last = Update("/scan", user, "", FALSE, 1 - bot.last.seq)]
    /\ BotUnchanged

\* approval.add_user(user_id) and approval.remove_user(user_id) called
\* directly
AddUser(user_id) ==
    /\ \E f \in add_user(bot.file, user_id).files :
          bot' = [bot EXCEPT !.file = f,
                             !.last = Update("add_user", "", user_id,
                                             add_user(bot.file, user_id).ret,
                                             1 - bot.last.seq)]
    /\ UNCHANGED scan_result
    /\ BotUnchanged

RemoveUser(user_id) ==
    /\ \E f \in remove_user(bot.file, user_id).files :
          bot' = [bot EXCEPT !.file = f,
                             !.last = Update("remove_user", "", user_id,
                                             remove_user(bot.file, user_id).ret,
                                             1 - bot.last.seq)]
    /\ UNCHANGED scan_result
    /\ BotUnchanged

CommandNext ==
    \/ \E user \in Users, arg \in AdduserArgs : AdduserCommand(user, arg)
    \/ \E user \in Users, arg \in AutotradeArgs : AutotradeCommand(user, arg)
    \/ \E user \in Users : ScanCommandBy(user)
    \/ \E user_id \in Users : AddUser(user_id)
    \/ \E user_id \in Users : RemoveUser(user_id)
    \/ TradingLoop
    \/ LoopExit

CommandSpec == BotInit /\ [][CommandNext]_vars

\* The handlers with the event loop running: asyncio.sleep ends and
\* scan_all_stocks returns, so a trading_loop task reaches its loop test
\* again and, finding is_running false, leaves.
CommandLiveSpec == BotInit /\ [][CommandNext]_vars /\ WF_vars(LoopExit)

----------------------------------------------------------------------------
(* Properties                                                              *)

InLog(s, e) == \E i \in 1..Len(task[s].log) : task[s].log[i] = e

\* scan_stock(s) has returned at least once; the task holds that invocation
Completed(s) == task[s].pc = "idle" /\ task[s].runs > 0

\* the completed invocation of s got a series of at least 30 candles
Scanned(s) == Completed(s) /\ IsSome(task[s].df) /\ DfLen(task[s].df[1]) >= 30

\* The three detectors applied directly to the series the invocation of s
\* fetched: the raw match, and the signal synthesis makes of it once
\* validated (None if the match is missing, fails validation or is rejected
\* by the synthesis)
SweepSignal(s) ==
    LET df == task[s].df[1]
        lv == calculate_support_resistance(df)
        m == detect_sweep(df)
    IN  IF IsSome(m) /\ validate_sweep(df, m) = "True"
        THEN build_signal(df, s, m, lv.support, lv.resistance, cfg).sig ELSE None

BreakoutSignal(s) ==
    LET df == task[s].df[1]
        lv == calculate_support_resistance(df)
        m == detect_false_breakout(df, lv.support, lv.resistance)
    IN  IF IsSome(m) /\ validate_false_breakout(df, m) = "True"
        THEN build_signal(df, s, m, lv.support, lv.resistance, cfg).sig ELSE None

EngulfingSignal(s) ==
    LET df == task[s].df[1]
        lv == calculate_support_resistance(df)
        m == detect_engulfing(df, lv.support, lv.resistance)
    IN  IF IsSome(m) /\ validate_engulfing(df, m) = "True"
        THEN build_signal(df, s, m, lv.support, lv.resistance, cfg).sig ELSE None

\* C1 -- Detector priority: whenever scan_stock has run on a series of at
\* least 30 candles on which the Liquidity Sweep is detected, validated and
\* synthesized, it returned exactly the sweep-derived signal, also when the
\* False Breakout (or Engulfing) would be accepted on the same series; and
\* when the sweep is not accepted but the False Breakout is, it returned the
\* breakout-derived signal, also when the Engulfing would be accepted.
C1_DetectorPriority ==
    \A s \in Symbols :
        Scanned(s) /\ HasPrice(task[s].df[1]) =>
            /\ IsSome(SweepSignal(s)) =>
                  /\ task[s].ret = SweepSignal(s)
                  /\ task[s].ret[1].pattern_name
                         \in {"Bullish Liquidity Sweep", "Bearish Liquidity Sweep"}
            /\ ~IsSome(SweepSignal(s)) /\ IsSome(BreakoutSignal(s)) =>
                  /\ task[s].ret = BreakoutSignal(s)
                  /\ task[s].ret[1].pattern_name
                         \in {"Bullish False Breakout", "Bearish False Breakout"}

\* an invocation returned the sweep signal on a series on which the False
\* Breakout is accepted as well
C1_Witness ==
    \E s \in Symbols :
        /\ Scanned(s) /\ HasPrice(task[s].df[1])
        /\ IsSome(SweepSignal(s)) /\ IsSome(BreakoutSignal(s))
        /\ IsSome(task[s].ret)
        /\ task[s].ret[1].pattern_name = "Bullish Liquidity Sweep"

\* C2 -- At most one signal per symbol per scan: an invocation of scan_stock
\* returns None or one signal; the stage whose signal is returned is the
\* last thing the invocation runs (no later detector stage is run); and
\* the list a scan returns holds at most one signal per symbol.
C2_AtMostOneSignal ==
    /\ \A s \in Symbols :
          /\ Len(task[s].ret) <= 1
          /\ \A i \in 1..Len(task[s].log) :
                task[s].log[i][1] = "signal" =>
                    /\ i = Len(task[s].log)
                    /\ Completed(s)
                    /\ IsSome(task[s].ret)
          /\ IsSome(task[s].ret) =>
                /\ task[s].log # <<>>
                /\ task[s].log[Len(task[s].log)][1] = "signal"
    /\ \A s \in Symbols :
          Cardinality({i \in 1..Len(scan_result.signals) :
                         scan_result.signals[i].symbol = StripNS(s)}) <= 1

\* an invocation returned the breakout signal and never ran the engulfing
\* detector, which would have been accepted too
C2_Witness ==
    \E s \in Symbols :
        /\ Scanned(s) /\ HasPrice(task[s].df[1])
        /\ IsSome(task[s].ret)
        /\ task[s].log[Len(task[s].log)] = <<"signal", "breakout">>
        /\ IsSome(EngulfingSignal(s))
        /\ ~InLog(s, <<"detect", "engulfing">>)

\* a stage's match was rejected: its validate failed, or _build_signal was
\* called for it and returned no signal
StageRejected(s, stage) ==
    \/ InLog(s, <<"inc", RejectedKey(stage)>>)
    \/ InLog(s, <<"build", stage>>) /\ ~InLog(s, <<"signal", stage>>)

\* C3 -- Fallthrough: when the Sweep (the False Breakout) match failed its
\* validation or was rejected by the synthesis, the invocation went on to
\* run the False Breakout (the Engulfing) detector; and the signal of the
\* first lower-priority detector that is accepted is what it returned.
C3_Fallthrough ==
    \A s \in Symbols :
        Scanned(s) /\ HasPrice(task[s].df[1]) =>
            /\ StageRejected(s, "sweep") => InLog(s, <<"detect", "breakout">>)
            /\ StageRejected(s, "breakout") => InLog(s, <<"detect", "engulfing">>)
            /\ StageRejected(s, "sweep") /\ IsSome(BreakoutSignal(s)) =>
                  task[s].ret = BreakoutSignal(s)
            /\ (StageRejected(s, "sweep") \/ StageRejected(s, "breakout"))
               /\ ~IsSome(BreakoutSignal(s)) /\ IsSome(EngulfingSignal(s)) =>
                  task[s].ret = EngulfingSignal(s)

\* an invocation whose sweep match failed validation returned the signal of
\* the False Breakout
C3_Witness ==
    \E s \in Symbols :
        /\ Scanned(s)
        /\ InLog(s, <<"inc", "sweep_rejected">>)
        /\ IsSome(task[s].ret)
        /\ task[s].ret[1].pattern_name = "Bullish False Breakout"

\* C4 -- Data unavailability: an invocation of scan_stock that got no series,
\* or fewer than 30 candles, returned None having done nothing but count the
\* symbol, fetch, and increment no_data (no series) respectively
\* insufficient_candles (short series): no levels, no detector, no error.
C4_DataUnavailable ==
    \A s \in Symbols :
        Completed(s) /\ (task[s].df = None \/ DfLen(task[s].df[1]) < 30) =>
            /\ task[s].ret = None
            /\ task[s].log =
                 << <<"inc", "total_scanned">>, <<"fetch", "">>,
                    <<"inc", IF task[s].df = None THEN "no_data"
                             ELSE "insufficient_candles">> >>

\* one invocation ended on a missing series and another on a short one
C4_Witness ==
    \E s1, s2 \in Symbols :
        /\ Completed(s1) /\ task[s1].df = None
        /\ InLog(s1, <<"inc", "no_data">>)
        /\ Completed(s2) /\ IsSome(task[s2].df) /\ DfLen(task[s2].df[1]) < 30
        /\ InLog(s2, <<"inc", "insufficient_candles">>)

----------------------------------------------------------------------------
(* scan_all_stocks: what a scan of the universe has to deliver             *)

\* the series fetch_intraday_data hands to scan_stock(s) from an empty cache
ProviderSeries(s) ==
    fetch_intraday_data([k \in CacheKeys |-> None], s, now, feed[s]).df

\* the signal of one detector stage on series df: detected, validated and
\* synthesized, else None
StageSignal(stage, df, s) ==
    LET lv == calculate_support_resistance(df)
        m == Detect(stage, df, lv)
    IN  IF IsSome(m) /\ Validate(stage, df, m) = "True"
        THEN build_signal(df, s, m, lv.support, lv.resistance, cfg).sig ELSE None

\* scanning s raises: the series has no price columns
ScanFaults(s) ==
    LET d == ProviderSeries(s)
    IN  IsSome(d) /\ DfLen(d[1]) >= 30 /\ ~HasClose(d[1])

\* what scan_stock(s) returns for the provider's series: None, or the signal
\* of the first stage, in priority order, that yields one
ExpectedSignal(s) ==
    LET d == ProviderSeries(s)
    IN  IF d = None THEN None
        ELSE IF DfLen(d[1]) < 30 \/ ~HasClose(d[1]) THEN None
        ELSE LET a == StageSignal("sweep", d[1], s)
                 b == StageSignal("breakout", d[1], s)
                 e == StageSignal("engulfing", d[1], s)
             IN  IF IsSome(a) THEN a ELSE IF IsSome(b) THEN b ELSE e

InScanResult(sig) ==
    \E i \in 1..Len(scan_result.signals) : scan_result.signals[i] = sig

\* C5 -- Scan result: once scan_all_stocks has returned, what it returned is
\* a list, and the list holds exactly the signals scan_stock produces for
\* the symbols of the universe (one entry per symbol that has a signal).
C5_ScanReturnsSignalList ==
    scan_result.returned =>
        /\ scan_result.is_list
        /\ \A s \in Symbols :
              IsSome(ExpectedSignal(s)) => InScanResult(ExpectedSignal(s)[1])
        /\ Len(scan_result.signals) =
              Cardinality({s \in Symbols : IsSome(ExpectedSignal(s))})

\* C6 -- Pool isolation: once a scan has returned in which the scanning of
\* some symbol raised, the signal of every other symbol that has one is in
\* the scan result.
C6_PoolIsolation ==
    scan_result.returned =>
        \A s \in Symbols :
            ScanFaults(s) =>
                \A o \in Symbols \ {s} :
                    IsSome(ExpectedSignal(o)) => InScanResult(ExpectedSignal(o)[1])

\* C7 -- No-data count: after a scan (and no other invocation of scan_stock)
\* over a universe in which k symbols have no provider data, the result has
\* no signal for these symbols and the no_data counter equals k.
C7_NoDataCountedOnce ==
    scan_result.returned /\ calls = 0 =>
        LET nodata == {s \in Symbols : ProviderSeries(s) = None}
        IN  /\ \A s \in nodata :
                  \A i \in 1..Len(scan_result.signals) :
                      scan_result.signals[i].symbol # StripNS(s)
            /\ rejection_stats["no_data"] = Cardinality(nodata)

\* C8 -- No state persists into a scan: scan_all_stocks resets every
\* diagnostic counter to 0 and empties the provider's cache before it
\* dispatches a symbol task.  The step of scan_all_stocks dispatches none,
\* so it leaves every counter at 0 and the cache empty, whatever earlier
\* invocations of scan_stock had counted and cached.
C8_ScanStartsClean ==
    [][ ~scan_result.returned /\ scan_result'.returned =>
          /\ \A k \in StatKeys : rejection_stats'[k] = 0
          /\ \A key \in CacheKeys : cache'[key] = None ]_vars

----------------------------------------------------------------------------
(* _build_signal: the risk:reward gate                                     *)

\* the match and the entry price _build_signal was called with for stage st
\* in the current invocation of scan_stock(s)
BuiltMatch(s, st) == Detect(st, task[s].df[1], task[s].levels)

BuiltEntry(s) == Cur(task[s].df[1]).C

\* RR = |target1 - entry| / |entry - stop| >= minimum, RR taken as 0 when
\* the risk is 0; entry in thousandths, stop and target1 in millionths
RRAtLeastMinimum(entry, stop6, target6, minrr) ==
    LET risk == Abs(entry * 1000 - stop6)
        reward == Abs(target6 - entry * 1000)
    IN  IF risk = 0 THEN 0 >= minrr ELSE 100 * reward >= minrr * risk

\* C9 -- RR gate: whenever _build_signal was called for a stage, it produced
\* the signal (which scan_stock returned) if and only if
\* RR = |target1 - entry| / |entry - stop|, 0 when the risk is 0, is at
\* least the configured minimum; when it produced none it did not raise,
\* and counted the rejection; every signal returned has risk_reward at
\* least the configured minimum.
C9_RRGate ==
    \A s \in Symbols :
        /\ \A i \in 1..Len(StageOrder) :
              LET st == StageOrder[i]
              IN  InLog(s, <<"build", st>>) =>
                    LET ty == BuiltMatch(s, st)[1].type
                        ok == RRAtLeastMinimum(BuiltEntry(s),
                                               StopLoss6(BuiltEntry(s), ty, cfg),
                                               Target6(BuiltEntry(s), ty, cfg.t1),
                                               cfg.minrr)
                    IN  /\ InLog(s, <<"signal", st>>) <=> ok
                        /\ ~InLog(s, <<"error", "">>)
                        /\ ~ok /\ Completed(s) => InLog(s, <<"inc", "low_rr_ratio">>)
        /\ IsSome(task[s].ret) => task[s].ret[1].risk_reward >= cfg.minrr

\* an invocation in which _build_signal was called for the sweep match with
\* RR = 1.0 (target 1.5 %, stop 1.5 %), produced nothing, and scan_stock
\* went on to the next detector
C9_Witness ==
    \E s \in Symbols :
        /\ Completed(s)
        /\ cfg.t1 = 15 /\ cfg.sl = 15
        /\ InLog(s, <<"build", "sweep">>) /\ ~InLog(s, <<"signal", "sweep">>)
        /\ InLog(s, <<"inc", "low_rr_ratio">>)
        /\ InLog(s, <<"detect", "breakout">>)
        /\ task[s].ret = None

\* a match was synthesized at entry 100.00 with stop loss 1.5 % (stop
\* 98.50), minimum RR 1.2 and target1 = t (in thousandths of a rupee)
SynthesizedAt100(s, st, t) ==
    /\ InLog(s, <<"build", st>>)
    /\ cfg.sl = 15 /\ cfg.minrr = 120
    /\ BuiltEntry(s) = 100000
    /\ Round2of6(StopLoss6(100000, BuiltMatch(s, st)[1].type, cfg)) = 98500
    /\ Round2of6(Target6(100000, BuiltMatch(s, st)[1].type, cfg.t1)) = t

\* C10 (as stated) -- with a 1.5 % stop loss and minimum RR 1.2, a match
\* synthesized at entry 100 (stop 98.5) with target1 = 102 is suppressed by
\* the RR gate: no signal is produced.
C10_Target102Suppressed ==
    \A s \in Symbols : \A i \in 1..Len(StageOrder) :
        SynthesizedAt100(s, StageOrder[i], 102000) =>
            /\ ~InLog(s, <<"signal", StageOrder[i]>>)
            /\ task[s].ret = None

\* C10 (amended) -- with a 1.5 % stop loss and minimum RR 1.2, a match
\* synthesized at entry 100 (stop 98.5) with target1 = 102 has RR 1.33 and
\* passes the RR gate: the signal is produced, with stop 98.5, target1 102
\* and risk_reward 1.33.  With target1 = 101.5 (RR 1.0) it is suppressed.
C10_Target102Passes ==
    \A s \in Symbols : \A i \in 1..Len(StageOrder) :
        /\ SynthesizedAt100(s, StageOrder[i], 102000) =>
              /\ InLog(s, <<"signal", StageOrder[i]>>)
              /\ IsSome(task[s].ret)
              /\ task[s].ret[1].entry_price = 100000
              /\ task[s].ret[1].stop_loss = 98500
              /\ task[s].ret[1].target_1 = 102000
              /\ task[s].ret[1].risk_reward = 133
        /\ SynthesizedAt100(s, StageOrder[i], 101500) =>
              /\ ~InLog(s, <<"signal", StageOrder[i]>>)
              /\ Completed(s) => task[s].ret = None

\* an invocation synthesized the sweep match at entry 100 with target1 102
\* and returned the signal
C10_Witness ==
    \E s \in Symbols :
        /\ Completed(s)
        /\ SynthesizedAt100(s, "sweep", 102000)
        /\ IsSome(task[s].ret)
        /\ task[s].ret[1].target_1 = 102000
        /\ task[s].ret[1].risk_reward = 133

----------------------------------------------------------------------------
(* _build_signal: the geometry of a signal                                 *)

\* C11 -- Signal geometry: every signal scan_stock returned has the last
\* close as entry; for a BUY stop = entry*(1-SL%), target1 = entry*(1+T1%),
\* target2 = entry*(1+T2%), for a SELL the signs invert (the signal carries
\* these values rounded to 2 decimals); and with SL% > 0 and 0 < T1% < T2%
\* the full-precision values are ordered stop < entry < target1 < target2
\* for a BUY and target2 < target1 < entry < stop for a SELL.
C11_SignalGeometry ==
    \A s \in Symbols :
        IsSome(task[s].ret) =>
            LET sig == task[s].ret[1]
                ty == sig.signal_type
                e == Cur(task[s].df[1]).C
                stop == IF ty = "BUY" THEN e * (1000 - cfg.sl) ELSE e * (1000 + cfg.sl)
                t1 == IF ty = "BUY" THEN e * (1000 + cfg.t1) ELSE e * (1000 - cfg.t1)
                t2 == IF ty = "BUY" THEN e * (1000 + cfg.t2) ELSE e * (1000 - cfg.t2)
            IN  /\ ty \in {"BUY", "SELL"}
                /\ sig.entry_price = Round2(e)
                /\ StopLoss6(e, ty, cfg) = stop
                /\ Target6(e, ty, cfg.t1) = t1
                /\ Target6(e, ty, cfg.t2) = t2
                /\ sig.stop_loss = Round2of6(stop)
                /\ sig.target_1 = Round2of6(t1)
                /\ sig.target_2 = Round2of6(t2)
                /\ cfg.sl > 0 /\ 0 < cfg.t1 /\ cfg.t1 < cfg.t2 =>
                      /\ ty = "BUY" =>
                            /\ StopLoss6(e, ty, cfg) < e * 1000
                            /\ e * 1000 < Target6(e, ty, cfg.t1)
                            /\ Target6(e, ty, cfg.t1) < Target6(e, ty, cfg.t2)
                      /\ ty = "SELL" =>
                            /\ Target6(e, ty, cfg.t2) < Target6(e, ty, cfg.t1)
                            /\ Target6(e, ty, cfg.t1) < e * 1000
                            /\ e * 1000 < StopLoss6(e, ty, cfg)

\* one invocation returned a BUY signal (entry 100.00, stop 98.50, targets
\* 102.00 and 103.50) and another a SELL signal with its stop above the
\* entry and its targets below
C11_Witness ==
    \E b, l \in Symbols :
        /\ IsSome(task[b].ret) /\ task[b].ret[1].signal_type = "BUY"
        /\ task[b].ret[1].entry_price = 100000
        /\ task[b].ret[1].stop_loss = 98500
        /\ task[b].ret[1].target_1 = 102000
        /\ task[b].ret[1].target_2 = 103500
        /\ IsSome(task[l].ret) /\ task[l].ret[1].signal_type = "SELL"
        /\ task[l].ret[1].target_2 < task[l].ret[1].target_1
        /\ task[l].ret[1].target_1 < task[l].ret[1].entry_price
        /\ task[l].ret[1].entry_price < task[l].ret[1].stop_loss

----------------------------------------------------------------------------
(* Empty level lists                                                       *)

SweepNames == {"Bullish Liquidity Sweep", "Bearish Liquidity Sweep"}

----------------------------------------------------------------------------
(* Faults inside the detectors                                             *)

\* what the undecorated detect function of the stage does on the series
DetectBody(stage, df, levels) ==
    CASE stage = "sweep" -> detect_sweep_body(df)
      [] stage = "breakout" ->
             detect_false_breakout_body(df, levels.support, levels.resistance)
      [] OTHER -> detect_engulfing_body(df, levels.support, levels.resistance)

\* what the undecorated validate function of the stage does on the match
ValidateBody(stage, df, signal) ==
    CASE stage = "sweep" -> validate_sweep_body(df, signal)
      [] stage = "breakout" -> validate_false_breakout_body(df, signal)
      [] OTHER -> validate_engulfing_body(df, signal)

\* C15 -- Detector faults: a fault inside a detector's detect or validate
\* function does not propagate into scan_stock (its except clause is not
\* entered); the faulting detect counts as no match, the faulting validate
\* as a failed validation, and the invocation goes on to the next detector
\* (after the last one it returns no signal).
C15_FaultIsNoMatch ==
    \A s \in Symbols :
        Completed(s) /\ InLog(s, <<"levels", "">>) /\ HasClose(task[s].df[1]) =>
            LET df == task[s].df[1]
                lv == task[s].levels
            IN  \A i \in 1..Len(StageOrder) :
                    LET stage == StageOrder[i]
                        goes_on ==
                            /\ ~InLog(s, <<"error", "">>)
                            /\ ~InLog(s, <<"build", stage>>)
                            /\ i < Len(StageOrder) =>
                                   InLog(s, <<"detect", StageOrder[i + 1]>>)
                            /\ i = Len(StageOrder) => task[s].ret = None
                    IN  /\ InLog(s, <<"detect", stage>>)
                           /\ DetectBody(stage, df, lv) = EXC =>
                               /\ ~InLog(s, <<"inc", DetectedKey(stage)>>)
                               /\ ~InLog(s, <<"validate", stage>>)
                               /\ goes_on
                        /\ InLog(s, <<"validate", stage>>)
                           /\ ValidateBody(stage, df, Detect(stage, df, lv)) = "raised" =>
                               /\ InLog(s, <<"inc", RejectedKey(stage)>>)
                               /\ goes_on

\* a series without volumes: the sweep is matched and its validation faults,
\* then the false breakout detection faults, and the engulfing detector ran
C15_Witness ==
    \E s \in Symbols :
        /\ Completed(s) /\ InLog(s, <<"levels", "">>) /\ HasClose(task[s].df[1])
        /\ InLog(s, <<"validate", "sweep">>)
        /\ ValidateBody("sweep", task[s].df[1], detect_sweep(task[s].df[1])) = "raised"
        /\ InLog(s, <<"detect", "breakout">>)
        /\ DetectBody("breakout", task[s].df[1], task[s].levels) = EXC
        /\ InLog(s, <<"detect", "engulfing">>)
        /\ task[s].ret = None

----------------------------------------------------------------------------
(* Diagnostics                                                             *)

\* C23 -- Diagnostics: a stage's *_rejected counter is incremented only when
\* the stage's validate function returned False for a detected match, never
\* when the detect or the validate function faulted; and an invocation in
\* which a detector faulted counts neither no_data nor insufficient_candles.
C23_RejectionsArePolicy ==
    \A s \in Symbols :
        Completed(s) /\ InLog(s, <<"levels", "">>) /\ HasClose(task[s].df[1]) =>
            LET df == task[s].df[1]
                lv == task[s].levels
            IN  \A i \in 1..Len(StageOrder) :
                    LET stage == StageOrder[i]
                        m == Detect(stage, df, lv)
                        faulted ==
                            /\ InLog(s, <<"detect", stage>>)
                            /\ \/ DetectBody(stage, df, lv) = EXC
                               \/ IsSome(m) /\ ValidateBody(stage, df, m) = "raised"
                    IN  /\ InLog(s, <<"inc", RejectedKey(stage)>>) =>
                               IsSome(m) /\ ValidateBody(stage, df, m) = "False"
                        /\ faulted =>
                               /\ ~InLog(s, <<"inc", "no_data">>)
                               /\ ~InLog(s, <<"inc", "insufficient_candles">>)

\* C24 -- No shared task state: invocations of scan_stock for different
\* symbols write no common state besides the provider's cache; in
\* particular no counter of rejection_stats is written by the invocations of
\* two symbols.
C24_TasksShareNothing ==
    \A s1, s2 \in Symbols :
        \A k \in StatKeys :
            InLog(s1, <<"inc", k>>) /\ InLog(s2, <<"inc", k>>) => s1 = s2

\* C27: every invocation of scan_stock that was started ends, returning a
\* signal or None (the terminal states signal / no-signal); no exception
\* leaves it, whatever the provider answered.
C27_ScanStockTerminates ==
    \A s \in Symbols :
        (task[s].pc # "idle") ~>
            (Completed(s) /\ (task[s].ret = None \/ IsSome(task[s].ret)))

\* one invocation ended in the except clause with None, another one with a
\* signal
C27_Witness ==
    \E s1, s2 \in Symbols :
        /\ Completed(s1) /\ InLog(s1, <<"error", "">>) /\ task[s1].ret = None
        /\ Completed(s2) /\ IsSome(task[s2].ret)

----------------------------------------------------------------------------
(* Safety settings of the bot                                              *)

\* C25 -- Duplicate suppression: no signal is sent for a symbol and
\* direction for which one was sent less than DUPLICATE_SIGNAL_WINDOW = 900
\* seconds earlier.
C25_NoDuplicateInWindow ==
    \A i, j \in 1..Len(bot.chat) :
        /\ i < j
        /\ bot.chat[i].symbol = bot.chat[j].symbol
        /\ bot.chat[i].signal_type = bot.chat[j].signal_type
        => bot.chat[j].at - bot.chat[i].at >= DUPLICATE_SIGNAL_WINDOW

\* C26 -- Daily cap: at most MAX_SIGNALS_PER_DAY = 10 signals are sent in one
\* day (every clock value of the model lies in the same day).
C26_DailyCap == Len(bot.chat) <= MAX_SIGNALS_PER_DAY

----------------------------------------------------------------------------
(* Direct calls of the pure functions: calculate_support_resistance and    *)
(* the detect / validate functions of the three detectors, applied to      *)
(* arguments drawn from the families below.                                *)

\* a candle of which only High and Low matter
HL(l, h) == Candle(l, h, l, h, 100)

\* the last candle of a level series: it closes at c
LastAt(c) == Candle(c, Max2(c, 100600), Min2(c, 100400), c, 100)

\* 22 candles around 100.5; the window of the last 20 has six local lows,
\* the last of them f, five local highs, and the round number 100.00
\* inside its range; the two candles in front of the window are wider than
\* all of it
LevelSeries(f, c) ==
    << HL(98000, 103000), HL(100400, 100600),
       HL(100400, 100600), HL(100400, 100600),
       HL(99120, 100600), HL(100400, 100720), HL(100400, 100600),
       HL(99340, 100600), HL(100400, 100940), HL(100400, 100600),
       HL(99560, 100600), HL(100400, 101160), HL(100400, 100600),
       HL(99780, 100600), HL(100400, 101380), HL(100400, 100600),
       HL(99890, 100600), HL(100400, 101596), HL(100400, 100600),
       HL(f, 100600), HL(100400, 100600), LastAt(c) >>

LevelFrames ==
    {Frame("ohlcv", LevelSeries(f, c)) :
        f \in {99996, 100004},
        c \in {99500, 99998, 100000, 100002, 100500, 100730, 101700}}

\* 20 candles around 50 (round numbers one rupee apart) with one low of
\* 47.40 and one high of 52.60
LevelSeries50(c) ==
    [i \in 1..19 |-> IF i = 5 THEN HL(47400, 50400)
                     ELSE IF i = 9 THEN HL(49600, 52600)
                     ELSE HL(49600, 50400)]
    \o << Candle(c, Max2(c, 50400), Min2(c, 49600), c, 100) >>

LevelFrames50 == {Frame("ohlcv", LevelSeries50(c)) : c \in {49999, 50000, 50500}}

\* short, empty and malformed frames
OddFrames ==
    {Frame("ohlcv", <<>>),
     Frame("ohlcv", << LastAt(100500) >>),
     Frame("ohlcv", Tail_(LevelSeries(100004, 100500), 5)),
     Frame("ocv", LevelSeries(100004, 100500)),
     Frame("none", LevelSeries(100004, 100500))}

LevelProbes ==
    {Probe(df, <<>>, <<>>, None) : df \in LevelFrames \cup LevelFrames50 \cup OddFrames}

\* the last n candles of series that carry a pattern, with and without
\* the level 100.00 the pattern sits on
HistoryLengths == {0, 1, 2, 3, 14, 15, 19, 20, 21}

CutFrames ==
    {Frame(cols, Tail_(c, n)) :
        cols \in {"ohlcv", "none"},
        c \in {SweepAndBreakoutBuy, SweepAndBreakoutSell, EngulfingOnlyBuy},
        n \in HistoryLengths}

CutProbes ==
    {Probe(df, lv, lv, None) : df \in CutFrames, lv \in {<<>>, <<100000>>}}

\* Series for detect_sweep.  The current candle has low lam and range 2.500
\* in 20 steps of 0.125, open at step a and close at step b, so that wick
\* and body ratios fall on, just under and just over 50% and 35%; one more
\* current candle has no range.  The candles before it have the low 99.250,
\* except one with the low 99.125 which lies inside or outside the window
\* of the 19 candles before the current one.
Calm == Candle(99500, 99750, 99250, 99500, 100)

Deep == Candle(99500, 99750, 99125, 99500, 100)

SweepCandle(lam, a, b) ==
    Candle(lam + 125 * a, lam + 2500, lam, lam + 125 * b, 100)

SweepCandles ==
    {SweepCandle(lam, a, a + d) :
        lam \in {99000, 99125, 99250}, a \in {9, 10, 11}, d \in {-7, 6, 7, 8}}
    \cup {Candle(lam, lam, lam, lam, 100) : lam \in {99000, 99125}}

\* n candles: n - 1 quiet ones, the one at position deep_at replaced by Deep
\* (deep_at = 0: none), then cur
SweepSeries(n, deep_at, cur) ==
    [i \in 1..(n - 1) |-> IF i = deep_at THEN Deep ELSE Calm] \o <<cur>>

SweepFrames ==
    {Frame("ohlcv", SweepSeries(h[1], h[2], cur)) :
        h \in {<<20, 0>>, <<20, 1>>, <<21, 1>>, <<21, 2>>}, cur \in SweepCandles}

SweepProbes == {Probe(df, <<>>, <<>>, None) : df \in SweepFrames}

\* Series for validate_sweep.  The closes of the last rows move by `up`
\* steps of +0.125 and `down` steps of -0.125 (the remaining ones of the 14
\* deltas the RSI reads are 0) and end at the close of cur; the volumes
\* before cur are 100.
Deltas(up, down) ==
    [k \in 1..RSI_PERIOD |-> IF k <= up THEN 1 ELSE IF k <= up + down THEN -1 ELSE 0]

\* the delta of row k of n rows (rows before the last 14 do not move)
DeltaAt(pat, n, k) == IF k > n - RSI_PERIOD THEN pat[k - (n - RSI_PERIOD)] ELSE 0

CloseAt(pat, n, i, c) ==
    c - 125 * SeqSum([j \in 1..(n - i) |-> DeltaAt(pat, n, i + j)])

ClosingSeries(pat, n, cur) ==
    [i \in 1..(n - 1) |->
        LET x == CloseAt(pat, n, i, cur.C) IN Candle(x, x, x, x, 100)] \o <<cur>>

\* current candles of range 2.500 closing 7, 8, 12 and 13 steps of 0.125
\* above the low, with the volume 79 or 80
ReversalCandles ==
    {Candle(99000 + 125 * 10, 99000 + 2500, 99000, 99000 + 125 * b, v) :
        b \in {7, 8, 12, 13}, v \in {79, 80}}

RsiPatterns ==
    {Deltas(14, 0), Deltas(0, 14), Deltas(0, 0), Deltas(10, 4), Deltas(9, 4),
     Deltas(4, 10), Deltas(4, 9)}

ValidateSweepFrames ==
    {Frame("ohlcv", ClosingSeries(pat, n, cur)) :
        pat \in RsiPatterns, n \in {13, 20, 21}, cur \in ReversalCandles}

SweepMatches ==
    {Some([type |-> "BUY", pattern_name |-> "Bullish Liquidity Sweep", level |-> 99120]),
     Some([type |-> "SELL", pattern_name |-> "Bearish Liquidity Sweep", level |-> 101500])}

ValidateSweepProbes ==
    {Probe(df, <<>>, <<>>, m) : df \in ValidateSweepFrames, m \in SweepMatches}

\* Series for detect_false_breakout around the level 100.00: the previous
\* candle's low is on or under 99.70 and its high on either side of 100.30,
\* its volume 121 or 122 against an average just above 101; the current
\* candle closes on or over 100.20 (bullish or bearish), or bearish on
\* either side of 99.80.
BreakCandles ==
    {Candle(100000, h, l, 100000, v) :
        h \in {100290, 100310}, l \in {99690, 99700}, v \in {121, 122}}

BackCandles ==
    {Candle(o, Max2(o, c) + 100, Min2(o, c) - 100, c, 100) :
        o \in {100100, 100300}, c \in {100200, 100210}}
    \cup {Candle(99900, 100000, c - 100, c, 100) : c \in {99790, 99810}}

BreakoutFrames ==
    {Frame("ohlcv", Series(Flat, n - 2, prev, cur)) :
        n \in {15, 20}, prev \in BreakCandles, cur \in BackCandles}

BreakoutSupports ==
    {<<>>, <<100000>>, <<100004>>, <<99000, 100000>>, <<100400, 100000>>,
     <<100000, 100400>>}

BreakoutProbes ==
    {Probe(df, sup, res, None) :
        df \in BreakoutFrames, sup \in BreakoutSupports, res \in {<<>>, <<100000>>}}

\* Candles for validate_false_breakout closing at 101.00: range 2.500 with a
\* body of k steps of 0.125 (0, 5, 6 and 7 of 20 steps), bullish or bearish,
\* and one without range; the match's level is exactly 1% from the close
\* (100.00) and just nearer and farther, below and above the close.
BodyCandles ==
    {Candle(101000 - 125 * k, 101000 - 125 * k - 625 + 2500,
            101000 - 125 * k - 625, 101000, 100) : k \in {0, 5, 6, 7}}
    \cup {Candle(101000 + 125 * k, 101000 - 625 + 2500, 101000 - 625, 101000, 100) :
              k \in {5, 6, 7}}
    \cup {Candle(101000, 101000, 101000, 101000, 100)}

BodyFrames ==
    {Frame("ohlcv", [i \in 1..(n - 1) |-> Flat] \o <<cur>>) :
        n \in {1, 15}, cur \in BodyCandles}

BreakoutMatches ==
    {Some([type |-> "BUY", pattern_name |-> "Bullish False Breakout", level |-> f]) :
        f \in {99990, 100000, 100010}}
    \cup {Some([type |-> "SELL", pattern_name |-> "Bearish False Breakout", level |-> f]) :
              f \in {102010, 102030}}

ValidateBreakoutProbes ==
    {Probe(df, <<>>, <<>>, m) : df \in BodyFrames, m \in BreakoutMatches}

\* Series for detect_engulfing.  The previous candle has the body 0.625
\* between 100.000 and 100.625, bearish or bullish; the current candle opens
\* on, under or over 100.000 and closes on, under or over 100.625, so that
\* its body is under, exactly and over 1.2 times 0.625 = 0.750; its wicks
\* are absent or add up to 0.875 or 1.000 (a body of 0.875 is then exactly
\* half the range, or less).  The close 100.800 is exactly 0.8% above 100.00.
EngulfedCandles ==
    {Candle(100625, 100700, 99900, 100000, 100),
     Candle(100000, 100700, 99900, 100625, 100)}

EngulfingCandles ==
    {Candle(o, c + w[1], o - w[2], c, 100) :
        o \in {99750, 99875, 100000, 100125},
        c \in {100500, 100625, 100750, 100800, 100875},
        w \in {<<0, 0>>, <<500, 375>>, <<500, 500>>}}
    \cup {Candle(100625, 100625, 100625, 100625, 100)}

EngulfingFrames ==
    {Frame("ohlcv", Series(Flat, n - 2, prev, cur)) :
        n \in {3, 20}, prev \in EngulfedCandles, cur \in EngulfingCandles}

EngulfingSupports ==
    {<<>>, <<99000>>, <<100000>>, <<100004>>, <<99000, 100000, 100400>>,
     <<100400, 100000>>}

EngulfingProbes ==
    {Probe(df, sup, <<>>, None) : df \in EngulfingFrames, sup \in EngulfingSupports}

\* The previous candle falls by 0.625; the current one opens at its close,
\* at the support 100.00, and rises by 0.720 or 0.740: between 1.15 and 1.2
\* times the previous body.
EngulfingRatioProbes ==
    {Probe(Frame("ohlcv", Series(Flat, 1, Candle(100625, 100700, 99900, 100000, 100),
                                 Candle(100000, c, 100000, c, 100))),
           <<100000>>, <<>>, None) : c \in {100720, 100740}}

\* Series for validate_engulfing: the current candle closes at 100.800 with
\* the volume 89 or 90 behind candles of volume 100; the match's key level
\* is exactly 0.8% from that close (100.00) or just nearer or farther,
\* below and above the close.
HeldCandles == {Candle(100000, 100900, 99900, 100800, v) : v \in {89, 90}}

HeldFrames ==
    {Frame("ohlcv", [i \in 1..(n - 1) |-> Flat] \o <<cur>>) :
        n \in {3, 19, 20, 21}, cur \in HeldCandles}

EngulfingMatches ==
    {Some([type |-> "BUY", pattern_name |-> "Bullish Engulfing", level |-> k]) :
        k \in {99990, 100000, 100010}}
    \cup {Some([type |-> "SELL", pattern_name |-> "Bearish Engulfing", level |-> k]) :
              k \in {101610, 101620}}

ValidateEngulfingProbes ==
    {Probe(df, <<>>, <<>>, m) : df \in HeldFrames, m \in EngulfingMatches}

\* Series for calculate_rsi of 14 to 16 candles: the closes of the last rows
\* rise 14 or 13 times (once in 13 unmoved, or fallen), behind nothing or
\* behind one candle that closed far higher, whose fall lies inside the 14
\* deltas read on 15 candles and outside them on 16.
RsiFrames ==
    {Frame("ohlcv", pre \o ClosingSeries(pat, n, Candle(100000, 100000, 100000, 100000, 100))) :
        pre \in {<<>>, <<Candle(105000, 105000, 105000, 105000, 100)>>},
        pat \in {Deltas(14, 0), Deltas(13, 0), Deltas(13, 1)},
        n \in {14, 15}}

RsiProbes == {Probe(df, <<>>, <<>>, None) : df \in RsiFrames}

\* What the provider answers at the n-th attempt of one fetch_stock_data
\* call: nothing, an exception, a frame without a complete row, or a frame of
\* one candle that tells the attempts apart
AttemptAnswers(n) ==
    {Empty, Raises, Answer("df", Frame("ohlcv", <<>>)),
     Full(<<Candle(100000, 100000 + n, 100000, 100000, 100)>>)}

AnswerStreams ==
    {a \in [1..(max_retries + 2) -> UNION {AttemptAnswers(n) : n \in 1..(max_retries + 2)}] :
        \A n \in 1..(max_retries + 2) : a[n] \in AttemptAnswers(n)}

FetchProbes == {[NoProbe EXCEPT !.answers = a] : a \in AnswerStreams}

\* The previous candle rises by 0.625; the current one opens on or above its
\* close and falls to or below its open by more or less than 1.2 times that
\* body, or does not move; the resistance 100.00 is near.
BearishEngulfingProbes ==
    {Probe(Frame("ohlcv", Series(Flat, 1, Candle(100000, 100700, 99900, 100625, 100),
                                 Candle(o, o, c, c, 100))),
           <<>>, <<100000>>, None) : o \in {100625, 100700}, c \in {99900, 100000, 100700}}

ProbeInputs ==
    LevelProbes \cup CutProbes \cup SweepProbes \cup ValidateSweepProbes
        \cup BreakoutProbes \cup ValidateBreakoutProbes \cup EngulfingProbes
        \cup ValidateEngulfingProbes \cup RsiProbes \cup FetchProbes
        \cup EngulfingRatioProbes \cup BearishEngulfingProbes

\* the arguments of the call are chosen; the scanner is not running
FunctionInit ==
    /\ probe \in ProbeInputs
    /\ bot = NewBot
    /\ cfg = ShippedConfig
    /\ feed = [s \in Symbols |-> Feed(Empty, Empty)]
    /\ now = 0
    /\ cache = [k \in CacheKeys |-> None]
    /\ rejection_stats = [k \in StatKeys |-> 0]
    /\ task = [s \in Symbols |-> IdleTask]
    /\ scan_result = [returned |-> FALSE, is_list |-> FALSE, signals |-> <<>>]
    /\ calls = 0

ScannerUnchanged ==
    UNCHANGED <<cfg, feed, now, cache, rejection_stats, task, scan_result, calls, bot>>

\* IndicatorAnalyzer.calculate_support_resistance(df)
CallLevels ==
    /\ probe.op = "input"
    /\ probe' = [probe EXCEPT !.op = "levels",
                              !.levels = calculate_support_resistance(probe.df)]
    /\ ScannerUnchanged

\* IndicatorAnalyzer.calculate_rsi(df)
CallRsi ==
    /\ probe.op = "input"
    /\ probe' = [probe EXCEPT !.op = "rsi", !.rsi = calculate_rsi(probe.df)]
    /\ ScannerUnchanged

\* DataFetcher.fetch_stock_data(symbol) with nothing cached, the provider
\* answering probe.answers
CallFetch ==
    /\ probe.op = "input"
    /\ probe.answers # <<>>
    /\ probe' = [probe EXCEPT !.op = "fetch", !.fetched = fetch_attempt(probe.answers, 0)]
    /\ ScannerUnchanged

\* LiquiditySweepDetector.detect_sweep(df)
CallDetectSweep ==
    /\ probe.op = "input"
    /\ probe' = [probe EXCEPT !.op = "detect_sweep", !.match = detect_sweep(probe.df)]
    /\ ScannerUnchanged

\* LiquiditySweepDetector.validate_sweep(df, signal)
CallValidateSweep ==
    /\ probe.op = "input"
    /\ probe' = [probe EXCEPT !.op = "validate_sweep",
                              !.verdict = validate_sweep(probe.df, probe.signal)]
    /\ ScannerUnchanged

\* FalseBreakoutDetector.detect_false_breakout(df, support_levels, resistance_levels)
CallDetectFalseBreakout ==
    /\ probe.op = "input"
    /\ probe' = [probe EXCEPT !.op = "detect_false_breakout",
                              !.match = detect_false_breakout(probe.df, probe.support,
                                                              probe.resistance)]
    /\ ScannerUnchanged

\* FalseBreakoutDetector.validate_false_breakout(df, signal)
CallValidateFalseBreakout ==
    /\ probe.op = "input"
    /\ probe' = [probe EXCEPT !.op = "validate_false_breakout",
                              !.verdict = validate_false_breakout(probe.df, probe.signal)]
    /\ ScannerUnchanged

\* EngulfingDetector.detect_engulfing(df, support_levels, resistance_levels)
CallDetectEngulfing ==
    /\ probe.op = "input"
    /\ probe' = [probe EXCEPT !.op = "detect_engulfing",
                              !.match = detect_engulfing(probe.df, probe.support,
                                                         probe.resistance)]
    /\ ScannerUnchanged

\* EngulfingDetector.validate_engulfing(df, signal)
CallValidateEngulfing ==
    /\ probe.op = "input"
    /\ probe' = [probe EXCEPT !.op = "validate_engulfing",
                              !.verdict = validate_engulfing(probe.df, probe.signal)]
    /\ ScannerUnchanged

FunctionNext ==
    \/ CallLevels
    \/ CallRsi
    \/ CallFetch
    \/ CallDetectSweep
    \/ CallValidateSweep
    \/ CallDetectFalseBreakout
    \/ CallValidateFalseBreakout
    \/ CallDetectEngulfing
    \/ CallValidateEngulfing

FunctionSpec == FunctionInit /\ [][FunctionNext]_vars

----------------------------------------------------------------------------
(* Properties of the level computation                                     *)

SeqSet(q) == {q[i] : i \in 1..Len(q)}

\* q lists the (at most MAX_LEVELS) members of the set cand that are nearest
\* to the price, nearest first; below says on which side of the price
NearestFirst(q, cand, below) ==
    /\ Len(q) <= 5
    /\ Len(q) = Min2(5, Cardinality(cand))
    /\ SeqSet(q) \subseteq cand
    /\ \A i, j \in 1..Len(q) : i < j => IF below THEN q[i] > q[j] ELSE q[i] < q[j]
    /\ \A x \in cand \ SeqSet(q) :
          \A y \in SeqSet(q) : IF below THEN x < y ELSE x > y

\* C12 -- Levels: for every series, the supports calculate_support_resistance
\* returns are all strictly below the current close and the resistances all
\* strictly above it; each list has at most 5 entries and no duplicates, is
\* ordered nearest-to-price first (supports descending, resistances
\* ascending), and holds the (up to) 5 candidates, rounded to 2 decimals,
\* that are nearest the current close on its side.
C12_LevelLists ==
    probe.op = "levels" =>
        LET sup == probe.levels.support
            res == probe.levels.resistance
        IN  IF ~HasPrice(probe.df) \/ DfLen(probe.df) = 0
            THEN sup = <<>> /\ res = <<>>
            ELSE LET close == Cur(probe.df).C
                     w == Tail_(probe.df.c, 20)
                     lows == {x \in {Round2(y) : y \in SupportCandidates(w)} : x < close}
                     highs == {x \in {Round2(y) : y \in ResistanceCandidates(w)} : x > close}
                 IN  /\ \A i \in 1..Len(sup) : sup[i] < close
                     /\ \A i \in 1..Len(res) : res[i] > close
                     /\ Cardinality(SeqSet(sup)) = Len(sup)
                     /\ Cardinality(SeqSet(res)) = Len(res)
                     /\ NearestFirst(sup, lows, TRUE)
                     /\ NearestFirst(res, highs, FALSE)

\* the level computation cut six candidate supports (the low 100.004 and
\* the round number giving 100.00 twice) down to the five nearest the close
\* of 100.50, and listed the resistances in ascending order
C12_Witness ==
    /\ probe.op = "levels"
    /\ HasPrice(probe.df) /\ DfLen(probe.df) = 22
    /\ Cur(probe.df).C = 100500
    /\ probe.df.c[20].L = 100004
    /\ probe.levels.support = <<100000, 99890, 99780, 99560, 99340>>
    /\ probe.levels.resistance = <<100720, 100940, 101160, 101380, 101600>>

----------------------------------------------------------------------------
(* Properties of the detectors                                             *)

\* C14 -- Minimum history: on a series shorter than the detector's minimum
\* (Liquidity Sweep 20 candles, False Breakout 15, Engulfing 3) the
\* detector's detect function returns no match, whatever the candles and
\* the level lists are.
C14_MinimumHistory ==
    /\ probe.op = "detect_sweep" /\ DfLen(probe.df) < 20 => probe.match = None
    /\ probe.op = "detect_false_breakout" /\ DfLen(probe.df) < 15 => probe.match = None
    /\ probe.op = "detect_engulfing" /\ DfLen(probe.df) < 3 => probe.match = None

\* the two candles of a bullish engulfing at the support 100.00 alone: no
\* match, while the same two candles behind one more candle are matched
C14_Witness ==
    /\ probe.op = "detect_engulfing"
    /\ DfLen(probe.df) = 2 /\ HasPrice(probe.df)
    /\ probe.support = <<100000>>
    /\ probe.match = None
    /\ IsSome(detect_engulfing(Frame("ohlcv", <<Flat>> \o probe.df.c),
                               probe.support, probe.resistance))

\* C16 -- Bullish sweep: on a series of at least 20 candles whose last
\* candle has a non-zero range, detect_sweep returns a BUY match exactly when
\* the last candle's lower wick is at least 50% of its range, it closed above
\* its open, its body is at least 35% of its range and its low is strictly
\* below the lowest low of the 19 candles before it; the match's sweep_level
\* is that lowest low rounded to 2 decimals.
C16_BullishSweep ==
    probe.op = "detect_sweep" /\ HasPrice(probe.df) /\ DfLen(probe.df) >= 20 =>
        LET n == DfLen(probe.df)
            cur == probe.df.c[n]
            range == cur.H - cur.L
            lower_wick == Min2(cur.O, cur.C) - cur.L
            prior_low == SetMin({probe.df.c[i].L : i \in (n - 19)..(n - 1)})
            expected == /\ 2 * lower_wick >= range
                        /\ cur.C > cur.O
                        /\ 100 * (cur.C - cur.O) >= 35 * range
                        /\ cur.L < prior_low
            is_buy == IsSome(probe.match) /\ probe.match[1].type = "BUY"
        IN  range # 0 =>
                /\ is_buy <=> expected
                /\ is_buy =>
                      /\ probe.match[1].level % 10 = 0
                      /\ 2 * Abs(probe.match[1].level - prior_low) <= 10
                      /\ probe.match[1].level = Round2(prior_low)

\* a wick of exactly 50% and a body of exactly 35% below the low 99.125 of
\* the oldest candle of the window: BUY at 99.12
C16_Witness ==
    /\ probe.op = "detect_sweep"
    /\ probe.df = Frame("ohlcv", SweepSeries(21, 2, SweepCandle(99000, 10, 17)))
    /\ IsSome(probe.match)
    /\ probe.match[1].type = "BUY"
    /\ probe.match[1].level = 99120

\* the sums of the rises and of the falls of the close over the last 14 rows
\* of the series (the first row has no predecessor and counts as unmoved)
Rises(df) ==
    LET n == DfLen(df)
    IN  SeqSum([k \in 1..14 |->
            LET i == n - 14 + k
            IN  IF i >= 2 /\ df.c[i].C > df.c[i - 1].C
                THEN df.c[i].C - df.c[i - 1].C ELSE 0])

Falls(df) ==
    LET n == DfLen(df)
    IN  SeqSum([k \in 1..14 |->
            LET i == n - 14 + k
            IN  IF i >= 2 /\ df.c[i].C < df.c[i - 1].C
                THEN df.c[i - 1].C - df.c[i].C ELSE 0])

\* the RSI of the series is a number (14 rows exist and the close moved)
RsiDefined(df) == DfLen(df) >= 14 /\ Rises(df) + Falls(df) > 0

NearestLevels(levels, price) ==
    {x \in SeqSet(levels) : \A y \in SeqSet(levels) : Abs(x - price) <= Abs(y - price)}

\* the volume of the previous candle exceeds 1.2 times the average of the
\* last 20 volumes; satisfied when fewer than 20 candles exist
BreakoutVolume(df) ==
    LET n == DfLen(df)
    IN  n < 20 \/ 10 * 20 * df.c[n - 1].V > 12 * SeqSum([k \in 1..20 |-> df.c[n - 20 + k].V])

\* the bullish conditions at the support S, the bearish ones at the resistance R
BreakoutBuyAt(df, S) ==
    LET n == DfLen(df)
    IN  /\ 1000 * df.c[n - 1].L < 997 * S
        /\ 1000 * df.c[n].C > 1002 * S
        /\ df.c[n].C > df.c[n].O
        /\ BreakoutVolume(df)

BreakoutSellAt(df, R) ==
    LET n == DfLen(df)
    IN  /\ 1000 * df.c[n - 1].H > 1003 * R
        /\ 1000 * df.c[n].C < 998 * R
        /\ df.c[n].C < df.c[n].O
        /\ BreakoutVolume(df)

\* C18 -- False breakout: on a series of at least 15 candles
\* detect_false_breakout returns a BUY match exactly when the support list is
\* not empty and, for S the support nearest to the current close, the
\* previous low is below 0.997*S, the current close above 1.002*S, the
\* current candle bullish and the previous volume above 1.2 times the
\* 20-candle average (satisfied below 20 candles); fakeout_level is S rounded
\* to 2 decimals.  A SELL match on the nearest resistance is returned only
\* when there is no BUY match, and with both lists empty nothing is returned.
\* (Where two supports are equally near, S is one of them.)
C18_FalseBreakout ==
    probe.op = "detect_false_breakout" /\ probe.df.cols = "ohlcv"
        /\ DfLen(probe.df) >= 15 =>
        LET df == probe.df
            cur == df.c[DfLen(df)]
            NS == NearestLevels(probe.support, cur.C)
            NR == NearestLevels(probe.resistance, cur.C)
            is_buy == IsSome(probe.match) /\ probe.match[1].type = "BUY"
            is_sell == IsSome(probe.match) /\ probe.match[1].type = "SELL"
            no_buy == \A S \in NS : ~BreakoutBuyAt(df, S)
        IN  /\ is_buy => \E S \in NS : /\ BreakoutBuyAt(df, S)
                                       /\ probe.match[1].level = Round2(S)
            /\ NS # {} /\ (\A S \in NS : BreakoutBuyAt(df, S)) => is_buy
            /\ is_sell => /\ ~is_buy /\ no_buy
                          /\ \E R \in NR : /\ BreakoutSellAt(df, R)
                                           /\ probe.match[1].level = Round2(R)
            /\ no_buy /\ NR # {} /\ (\A R \in NR : BreakoutSellAt(df, R)) => is_sell
            /\ probe.support = <<>> /\ probe.resistance = <<>> => probe.match = None
            /\ probe.match = None \/ is_buy \/ is_sell

\* 20 candles, the nearest support 100.00 second in the list, broken by the
\* previous low 99.69 on the volume 122 and regained by the bullish close
\* 100.21: BUY at 100.00
C18_Witness ==
    /\ probe.op = "detect_false_breakout"
    /\ probe.df.cols = "ohlcv" /\ DfLen(probe.df) = 20
    /\ probe.support = <<99000, 100000>>
    /\ probe.df.c[19].L = 99690 /\ probe.df.c[19].V = 122
    /\ probe.df.c[20].C = 100210 /\ probe.df.c[20].O = 100100
    /\ IsSome(probe.match)
    /\ probe.match[1].type = "BUY"
    /\ probe.match[1].level = 100000

\* C19 -- False breakout validation: validate_false_breakout rejects a match
\* exactly when the current candle has a non-zero range and a body below 30%
\* of it, or the current close is more than 1% of the fakeout level away from
\* the fakeout level.
C19_BreakoutValidation ==
    probe.op = "validate_false_breakout" /\ IsSome(probe.signal)
        /\ HasPrice(probe.df) /\ DfLen(probe.df) >= 1 =>
        LET cur == probe.df.c[DfLen(probe.df)]
            range == cur.H - cur.L
            body == Abs(cur.C - cur.O)
            fakeout_level == probe.signal[1].level
            weak_body == range # 0 /\ 100 * body < 30 * range
            too_far == 100 * Abs(cur.C - fakeout_level) > 1 * fakeout_level
        IN  probe.verdict # "True" <=> weak_body \/ too_far

\* a body of exactly 30% of the range, closing exactly 1% above the level:
\* accepted
C19_Witness ==
    /\ probe.op = "validate_false_breakout"
    /\ IsSome(probe.signal) /\ probe.signal[1].level = 100000
    /\ HasPrice(probe.df) /\ DfLen(probe.df) = 15
    /\ probe.df.c[15].C = 101000
    /\ probe.df.c[15].O = 100250
    /\ probe.df.c[15].H - probe.df.c[15].L = 2500
    /\ probe.verdict = "True"

\* the positions of the levels within 0.8% (of the level) of the price
NearPositions(levels, price) ==
    {i \in 1..Len(levels) : 1000 * Abs(price - levels[i]) <= 8 * levels[i]}

----------------------------------------------------------------------------
(* Properties of the RSI                                                   *)

\* C22 -- RSI without losses: on a series of at least 15 candles whose close
\* rose and never fell over the last 14 deltas, the last value of
\* calculate_rsi is exactly 100, and it is the computed value, not the
\* fallback returned after an exception.
C22_RsiSaturates ==
    probe.op = "rsi" /\ HasClose(probe.df) /\ DfLen(probe.df) >= 15
        /\ Falls(probe.df) = 0 /\ Rises(probe.df) > 0 =>
        /\ probe.rsi.kind # "fifty"
        /\ RsiIs(probe.rsi, 100)

\* 16 candles: a fall of the close just before the last 14 deltas, which
\* are 14 rises: RSI 100
C22_Witness ==
    /\ probe.op = "rsi"
    /\ HasClose(probe.df) /\ DfLen(probe.df) = 16
    /\ probe.df.c[1].C > probe.df.c[2].C
    /\ \A i \in 3..16 : probe.df.c[i].C > probe.df.c[i - 1].C
    /\ RsiIs(probe.rsi, 100)

----------------------------------------------------------------------------
(* Properties of the data fetcher                                          *)

\* the attempts, among the max_retries + 1 a call may make, at which the
\* provider hands a frame over
FrameAttempts(answers) == {n \in 1..(max_retries + 1) : answers[n].kind = "df"}

FirstFrameAttempt(answers) ==
    CHOOSE n \in FrameAttempts(answers) : \A m \in FrameAttempts(answers) : n <= m

\* C28: a top-level fetch_stock_data call makes at most max_retries + 1 = 3
\* provider attempts; when every one of them is empty or raises it returns
\* None after the third; the first attempt that yields a series with rows
\* ends the retries and that series is returned.
C28_FetchRetries ==
    probe.op = "fetch" =>
        LET r == probe.fetched
            a == probe.answers
        IN  /\ r.attempts >= 1
            /\ r.attempts <= max_retries + 1
            /\ FrameAttempts(a) = {} => r.df = None /\ r.attempts = max_retries + 1
            /\ FrameAttempts(a) # {} =>
                   LET n == FirstFrameAttempt(a)
                   IN  /\ r.attempts = n
                       /\ DfLen(a[n].df) > 0 => r.df = Some(a[n].df)
                       /\ DfLen(a[n].df) = 0 => r.df = None

\* two failed attempts, one empty and one raising, then the series of the
\* third attempt is returned although the fourth answer differs
C28_Witness ==
    /\ probe.op = "fetch"
    /\ probe.answers[1] = Empty
    /\ probe.answers[2] = Raises
    /\ probe.answers[3].kind = "df" /\ DfLen(probe.answers[3].df) > 0
    /\ probe.answers[4].kind = "df" /\ DfLen(probe.answers[4].df) > 0
    /\ probe.fetched = [df |-> Some(probe.answers[3].df), attempts |-> 3]

\* the cache holds for the key an entry stored less than cache_duration
\* seconds ago
Fresh(k) == IsSome(cache[k]) /\ now - cache[k][1].time < cache_duration

\* what the provider answers for the key, and whether that is a series with
\* rows
AnswerOf(k) == IF k[2] = "1d" THEN feed[k[1]].d1 ELSE feed[k[1]].d2

GoodAnswer(k) == AnswerOf(k).kind = "df" /\ DfLen(AnswerOf(k).df) > 0

\* the step of scan_stock(s) that fetches
FetchStep(s) == task[s].pc = "fetch" /\ task'[s] # task[s]

\* C29: fetch_stock_data returns the cached series, and does not contact the
\* provider, exactly when the entry of its key was stored less than 60
\* seconds earlier; an entry is stored only by a fetch that got a series with
\* rows from the provider, so a failed fetch leaves the cache as it was.
C29_CacheWindow ==
    [][\A s \in Symbols :
         FetchStep(s) =>
            /\ \A p \in Periods :
                  LET k == <<s, p>>
                  IN  /\ Fresh(k) => cache'[k] = cache[k]
                      /\ cache'[k] # cache[k] =>
                            /\ ~Fresh(k)
                            /\ GoodAnswer(k)
                            /\ cache'[k] = Some([time |-> now, df |-> AnswerOf(k).df])
            /\ LET k == <<s, "1d">>    \* the key every fetch starts with
               IN  /\ ~Fresh(k) /\ GoodAnswer(k) =>
                         cache'[k] = Some([time |-> now, df |-> AnswerOf(k).df])
                   /\ ~Fresh(k) /\ ~GoodAnswer(k) => cache'[k] = cache[k]
            /\ task'[s].hit =>
                  \E p \in Periods : /\ Fresh(<<s, p>>)
                                     /\ task'[s].df = Some(cache[<<s, p>>][1].df)
            /\ ~task'[s].hit /\ IsSome(task'[s].df) =>
                  \E p \in Periods : /\ ~Fresh(<<s, p>>)
                                     /\ GoodAnswer(<<s, p>>)
                                     /\ task'[s].df = Some(AnswerOf(<<s, p>>).df)
            /\ (\A p \in Periods : ~Fresh(<<s, p>>)) => ~task'[s].hit
            /\ Fresh(<<s, "1d">>) /\ DfLen(cache[<<s, "1d">>][1].df) >= MIN_INTRADAY_CANDLES
                  => task'[s].hit
      ]_vars

\* the second invocation for a symbol fetched exactly cache_duration seconds
\* after the first one had stored the series: no hit, the entry was stored
\* again
C29_Witness ==
    \E s \in Symbols :
        /\ task[s].runs = 2
        /\ ~task[s].hit
        /\ IsSome(cache[<<s, "1d">>])
        /\ cache[<<s, "1d">>][1].time = now
        /\ now >= cache_duration

----------------------------------------------------------------------------
(* Properties of the configured engulfing ratio                            *)

\* C30: the strong-body requirement of detect_engulfing uses the configured
\* ENGULFING_BODY_RATIO = 1.15: a bullish candle that engulfs the bearish
\* previous one near a support, is no doji and has a body more than 1.15
\* times the previous body gives a BUY match.
C30_ConfiguredBodyRatio ==
    probe.op = "detect_engulfing" /\ HasPrice(probe.df) /\ DfLen(probe.df) >= 3 =>
        LET n == DfLen(probe.df)
            prev == probe.df.c[n - 1]
            cur == probe.df.c[n]
            body == Abs(cur.C - cur.O)
            range == cur.H - cur.L
            doji == range # 0 /\ 100 * body < 50 * range
            strong_body == 100 * body > ENGULFING_BODY_RATIO * Abs(prev.C - prev.O)
        IN  /\ ~doji
            /\ prev.C < prev.O
            /\ cur.C > cur.O
            /\ cur.O <= prev.C
            /\ cur.C >= prev.O
            /\ strong_body
            /\ NearPositions(probe.support, cur.C) # {}
            => IsSome(probe.match) /\ probe.match[1].type = "BUY"

----------------------------------------------------------------------------
(* Properties of the command handlers                                      *)

\* the step handles an update or a direct call
Handled(cmd) == bot'.last # bot.last /\ bot'.last.cmd = cmd

\* C31: /autotrade on, /autotrade off and /scan sent by a user who is not
\* approved leave is_running unchanged, create no trading loop and start no
\* scan; /adduser sent by anyone but the admin leaves the approved users
\* unchanged.
C31_UnauthorisedNoEffect ==
    [][/\ (Handled("/autotrade") \/ Handled("/scan"))
           /\ ~is_user_approved(bot.file, bot'.last.user)
           => /\ bot'.is_running = bot.is_running
              /\ bot'.loops = bot.loops
              /\ bot'.chat = bot.chat
              /\ scan_result' = scan_result
       /\ Handled("/adduser") /\ bot'.last.user # ADMIN_USER_ID
           => /\ bot'.file = bot.file
              /\ load_approved_users(bot'.file) = load_approved_users(bot.file)
      ]_vars

\* u1, removed from the approvals again, sent /autotrade on: the bot is not
\* running and has no loop
C31_Witness ==
    /\ bot.last.cmd = "/autotrade" /\ bot.last.arg = "on" /\ bot.last.user = "u1"
    /\ bot.file.kind = "users"
    /\ ~is_user_approved(bot.file, "u1")
    /\ is_user_approved(bot.file, "u2")
    /\ ~bot.is_running /\ bot.loops = 0
    /\ ~scan_result.returned

----------------------------------------------------------------------------
(* Properties of the synthesis under the shipped configuration             *)

\* the positions of the log of s at which _build_signal was called
BuildPositions(s) == {i \in 1..Len(task[s].log) : task[s].log[i][1] = "build"}

\* C32: the RR of _build_signal depends only on the configuration: for the
\* entry price of every fetched series and both signal types it is
\* TARGET_PERCENTAGE_1 / STOP_LOSS_PERCENTAGE (0 without a stop distance), so
\* the gate rejects exactly under a configuration whose ratio is below the
\* minimum.  Under the shipped configuration (2.0 / 1.5 = 1.33 >= 1.2) every
\* call of _build_signal is followed at once by the signal, low_rr_ratio
\* stays 0 and no invocation goes on to the next detector after a synthesis.
C32_RRFromConfigOnly ==
    LET low == cfg.sl = 0 \/ 100 * cfg.t1 < cfg.minrr * cfg.sl
    IN  /\ \A s \in Symbols :
              /\ IsSome(task[s].df) /\ HasClose(task[s].df[1])
                    /\ DfLen(task[s].df[1]) > 0 /\ Cur(task[s].df[1]).C > 0 =>
                    \A ty \in {"BUY", "SELL"} :
                        LET entry == Cur(task[s].df[1]).C
                        IN  /\ RRTooLow(entry, ty, cfg) <=> low
                            /\ cfg.sl > 0 =>
                                  RRRound2(entry, ty, cfg) = RoundDiv(100 * cfg.t1, cfg.sl)
                            /\ cfg.sl = 0 => RRRound2(entry, ty, cfg) = 0
              /\ InLog(s, <<"inc", "low_rr_ratio">>) => low
              /\ IsSome(task[s].ret) =>
                    /\ ~low
                    /\ task[s].ret[1].risk_reward = RoundDiv(100 * cfg.t1, cfg.sl)
        /\ cfg = ShippedConfig =>
              /\ rejection_stats["low_rr_ratio"] = 0
              /\ \A s \in Symbols :
                    /\ task[s].ctr # "low_rr_ratio"
                    /\ \A i \in BuildPositions(s) :
                          /\ i + 1 = Len(task[s].log)
                          /\ task[s].log[i + 1] = <<"signal", task[s].log[i][2]>>
                          /\ IsSome(task[s].ret)
                          /\ task[s].ret[1].risk_reward = 133

\* under the shipped configuration a validated SELL match at 99.70 and a
\* validated BUY match became signals with RR 1.33
C32_Witness ==
    /\ cfg = ShippedConfig
    /\ \E s1, s2 \in Symbols :
          /\ Completed(s1) /\ BuildPositions(s1) # {} /\ IsSome(task[s1].ret)
          /\ task[s1].ret[1].signal_type = "SELL"
          /\ task[s1].ret[1].risk_reward = 133
          /\ Completed(s2) /\ BuildPositions(s2) # {} /\ IsSome(task[s2].ret)
          /\ task[s2].ret[1].signal_type = "BUY"
          /\ task[s2].ret[1].entry_price # task[s1].ret[1].entry_price

----------------------------------------------------------------------------
(* Properties of a detected sweep                                          *)

\* C33: for every match detect_sweep returned in an invocation of scan_stock
\* (wick >= 50% and body >= 35% of the range), the reversal distance
\* validate_sweep reads is wick plus body, at least 85% of the range, so its
\* weak-reversal rule (below 40%) does not fire; on a series with a Volume
\* column a sweep is rejected only by the volume rule or by the RSI rule.
C33_WeakReversalNeverFires ==
    \A s \in Symbols :
        InLog(s, <<"validate", "sweep">>) =>
            LET df == task[s].df[1]
                n == DfLen(df)
                cur == df.c[n]
                m == detect_sweep(df)
                buy == m[1].type = "BUY"
                range == cur.H - cur.L
                body == Abs(cur.C - cur.O)
                wick == IF buy THEN Min2(cur.O, cur.C) - cur.L
                        ELSE cur.H - Max2(cur.O, cur.C)
                reversal == IF buy THEN cur.C - cur.L ELSE cur.H - cur.C
                volumes == SeqSum([k \in 1..20 |-> df.c[n - 20 + k].V])
                low_volume == 10 * 20 * cur.V < 8 * volumes
                g == Rises(df)
                l == Falls(df)
                rsi_blocks == /\ RsiDefined(df)
                              /\ \/ buy /\ 100 * g > 70 * (g + l)
                                 \/ ~buy /\ 100 * g < 30 * (g + l)
                rejected == \/ InLog(s, <<"inc", "sweep_rejected">>)
                            \/ task[s].pc # "idle" /\ task[s].ctr = "sweep_rejected"
            IN  /\ IsSome(m) /\ m # EXC
                /\ range > 0
                /\ 100 * wick >= SWEEP_WICK_RATIO * range
                /\ 100 * body >= SWEEP_REVERSAL_BODY * range
                /\ reversal = wick + body
                /\ 100 * reversal >= 85 * range
                /\ ~(10 * reversal < 4 * range)
                /\ HasVolume(df) => (rejected <=> low_volume \/ rsi_blocks)

\* a detected BUY sweep rejected by the volume rule, another detected BUY
\* sweep accepted
C33_Witness ==
    \E s1, s2 \in Symbols :
        /\ Completed(s1) /\ InLog(s1, <<"validate", "sweep">>)
        /\ HasVolume(task[s1].df[1])
        /\ detect_sweep(task[s1].df[1])[1].type = "BUY"
        /\ InLog(s1, <<"inc", "sweep_rejected">>)
        /\ ~RsiDefined(task[s1].df[1]) \/ 100 * Rises(task[s1].df[1]) <=
                70 * (Rises(task[s1].df[1]) + Falls(task[s1].df[1]))
        /\ Completed(s2) /\ InLog(s2, <<"validate", "sweep">>)
        /\ detect_sweep(task[s2].df[1])[1].type = "BUY"
        /\ InLog(s2, <<"signal", "sweep">>)

----------------------------------------------------------------------------
(* Properties of the direction of a match                                  *)

DetectOps == {"detect_sweep", "detect_false_breakout", "detect_engulfing"}

\* C34: the type of every raw match agrees with the direction of the last
\* candle: BUY only when it closed above its open, SELL only when it closed
\* below its open; so the bullish and the bearish conditions of a detector
\* never hold together, and a last candle with close = open gives no match.
C34_TypeFollowsCandle ==
    probe.op \in DetectOps /\ HasPrice(probe.df) /\ DfLen(probe.df) >= 1 =>
        LET cur == Cur(probe.df)
            m == probe.match
        IN  /\ IsSome(m) => m[1].type \in {"BUY", "SELL"}
            /\ IsSome(m) /\ m[1].type = "BUY" => cur.C > cur.O
            /\ IsSome(m) /\ m[1].type = "SELL" => cur.C < cur.O
            /\ cur.C = cur.O => m = None

\* a bearish engulfing candle at the resistance 100.00: SELL
C34_Witness ==
    /\ probe.op = "detect_engulfing"
    /\ DfLen(probe.df) = 3
    /\ Cur(probe.df).C < Cur(probe.df).O
    /\ Prev(probe.df).C > Prev(probe.df).O
    /\ IsSome(probe.match)
    /\ probe.match[1].type = "SELL"
    /\ probe.match[1].pattern_name = "Bearish Engulfing"

----------------------------------------------------------------------------
(* Properties of the diagnostic counters                                   *)

\* every symbol was scanned once and all invocations have returned
ScannedOnce == \A s \in Symbols : Completed(s) /\ task[s].runs = 1

\* the symbols whose invocation incremented rejection_stats[k]
Incremented(k) == {s \in Symbols : InLog(s, <<"inc", k>>)}

\* C35: no counter update is lost: after every symbol was scanned once by
\* concurrent invocations, total_scanned is the number of symbols and every
\* other counter is the number of invocations that took its branch, for
\* every interleaving of the increments.
C35_NoLostUpdate ==
    ScannedOnce =>
        /\ rejection_stats["total_scanned"] = Cardinality(Symbols)
        /\ \A k \in StatKeys : rejection_stats[k] = Cardinality(Incremented(k))

\* the invocations ran one after another: none started while another was in
\* progress
OneAfterAnother == \A s \in Symbols : task[s].alone

\* the symbols whose invocation returned a signal
Emitted == {s \in Symbols : IsSome(task[s].ret)}

Stat(k) == rejection_stats[k]

\* C36: in a scan whose invocations run one after another, each detector's
\* rejections do not exceed its raw matches, and the raw matches of the
\* three detectors are the signals returned plus the rejections of the three
\* detectors plus the matches given up for their risk:reward ratio.
C36_MatchAccounting ==
    ScannedOnce /\ OneAfterAnother =>
        /\ Stat("sweep_rejected") <= Stat("sweep_detected")
        /\ Stat("breakout_rejected") <= Stat("breakout_detected")
        /\ Stat("engulfing_rejected") <= Stat("engulfing_detected")
        /\ Stat("sweep_detected") + Stat("breakout_detected")
             + Stat("engulfing_detected")
           = Cardinality(Emitted) + Stat("sweep_rejected")
             + Stat("breakout_rejected") + Stat("engulfing_rejected")
             + Stat("low_rr_ratio")

\* two symbols scanned one after another, both returning a signal, one of
\* them from the second detector after its sweep was rejected
C36_Witness ==
    /\ ScannedOnce
    /\ OneAfterAnother
    /\ Cardinality(Emitted) = 2
    /\ Stat("sweep_rejected") > 0
    /\ Stat("breakout_detected") > 0

----------------------------------------------------------------------------
(* Properties of the trading loop                                          *)

\* C37: under any sequence of /autotrade on and /autotrade off from approved
\* users, at most one trading_loop task is alive at any time.
C37_OneTradingLoop == bot.loops <= 1

\* C38: after /autotrade off, as long as no /autotrade on follows, the
\* trading loop starts no scan (the loop's clock does not advance while
\* is_running is false, and only /autotrade on sets is_running again), and
\* every live trading_loop task eventually leaves.
C38_OffStopsTheLoop ==
    /\ [][~bot.is_running => /\ bot'.clock = bot.clock
                             /\ bot'.is_running =>
                                  /\ Handled("/autotrade")
                                  /\ bot'.last.arg = "on"]_vars
    /\ (~bot.is_running /\ bot.loops > 0) ~> (bot.loops = 0 \/ bot.is_running)

\* the admin's /autotrade off after the loop has scanned, and the loop gone
C38_Witness ==
    /\ bot.last.cmd = "/autotrade"
    /\ bot.last.arg = "off"
    /\ bot.last.user = ADMIN_USER_ID
    /\ bot.clock > 0
    /\ ~bot.is_running
    /\ bot.loops = 0

----------------------------------------------------------------------------
(* Properties of the approvals file                                        *)

\* a call of approval.py that returned False and left the file as it was
Refused == ~bot'.last.ret /\ bot'.file = bot.file

\* C39: starting without an approvals file, after any sequence of add_user
\* and remove_user calls the admin is approved; remove_user of the admin,
\* add_user of an approved user and remove_user of a user who is not
\* approved return False and leave the stored set unchanged.
C39_AdminStaysApproved ==
    /\ [](is_user_approved(bot.file, ADMIN_USER_ID))
    /\ [][/\ Handled("remove_user") /\ bot'.last.arg = ADMIN_USER_ID => Refused
          /\ Handled("add_user") /\ is_user_approved(bot.file, bot'.last.arg)
               => Refused
          /\ Handled("remove_user") /\ ~is_user_approved(bot.file, bot'.last.arg)
               => Refused]_vars

\* remove_user of the admin was refused with another user on the file
C39_Witness ==
    /\ bot.last.cmd = "remove_user"
    /\ bot.last.arg = ADMIN_USER_ID
    /\ ~bot.last.ret
    /\ bot.file.kind = "users"
    /\ load_approved_users(bot.file) = {ADMIN_USER_ID, "u1"}

====
